---- MODULE Spec2Model ----
(***************************************************************************)
(* Job orchestration and real-time fan-out of agent-bletchley.             *)
(*                                                                         *)
(* One research job (job_id) is created by create_job, started by          *)
(* ResearchEngine.start_research and driven by                             *)
(* ResearchEngine._run_research_loop.  Every persistence call of           *)
(* app/db/supabase_client.py either takes effect and returns, or raises    *)
(* and stores nothing.  The orchestrator is always handed the module-level *)
(* ConnectionManager (routes.py passes it on every start), so every        *)
(* `if connection_manager:` branch is taken.                               *)
(*                                                                         *)
(* An action is the code one coroutine runs between two suspension points: *)
(* the awaited call returns (or raises) and the coroutine runs on to its   *)
(* next await.  asyncio.create_task only queues a task; the queued tasks   *)
(* take their first step, in creation order, once the creating coroutine   *)
(* suspends.                                                               *)
(***************************************************************************)
EXTENDS Integers, Sequences, FiniteSets, TLC

VARIABLES
    research_jobs,        \* the job's row: [status, progress, completed_at, report]
    research_iterations,  \* rows of research_iterations, in insertion order
    research_sources,     \* rows of research_sources, in insertion order
    startPc,              \* position of start_research
    loopPc,               \* position of the _run_research_loop task
    loopError,            \* the exception the loop's handler caught, if any
    iteration_count,      \* local of _run_research_loop
    emitted,              \* events handed to asyncio.create_task, in order
    tasks,                \* broadcast tasks created and not yet finished
    active_connections,   \* ConnectionManager.active_connections
    wsState,              \* per WebSocket: position of its websocket_endpoint
    received,             \* per WebSocket: the message its peer was sent last
    broadcast_raised,     \* whether some _broadcast_to_job ended by raising
    client,               \* one call of TongyiClient.chat_completion
    sourceCalls,          \* calls of add_source made next to the loop's
    tool,                 \* one call of ToolRegistry.execute_tool
    endpoint,             \* per WebSocket: its websocket_endpoint after connect
    cancel_requested      \* a client asked for a cancellation (kept nowhere by the code)

vars == <<research_jobs, research_iterations, research_sources, startPc, loopPc,
          loopError, iteration_count, emitted, tasks, active_connections, wsState,
          received, broadcast_raised, client, sourceCalls, tool, endpoint,
          cancel_requested>>

dbVars == <<research_jobs, research_iterations, research_sources>>
engineVars == <<startPc, loopPc, loopError, iteration_count, emitted>>
managerVars == <<active_connections, wsState, received, broadcast_raised>>
serviceVars == <<client, sourceCalls, tool, endpoint, cancel_requested>>

----------------------------------------------------------------------------
(* Values *)

\* Python's None and a present optional value.
None == <<>>
Some(x) == <<x>>

\* The job the orchestrator runs, and every job id a subscriber may name.
job_id == "j1"
JobIds == {"j1", "j2"}

\* The WebSocket objects that may connect.
WebSockets == {"w1", "w2"}

\* Outcome of an awaited persistence call: it returns, or it raises.
Outcomes == {"ok", "raise"}

max_iterations == 20

\* At most this many broadcasts are suspended in a send at once.
MaxInFlight == 1

\* The manager on its own is handed at most this many messages.
MaxPublish == 3

Min(a, b) == IF a <= b THEN a ELSE b
Max(a, b) == IF a >= b THEN a ELSE b

\* ResearchJobStatus, and the statuses no later write may change.
Statuses == {"pending", "running", "completed", "failed", "cancelled"}
TerminalStatuses == Statuses \ {"pending", "running"}

----------------------------------------------------------------------------
(* app/db/supabase_client.py: what each call stores when it does not raise *)

\* Faulty variant: the row is inserted without a progress.
create_job_without_progress ==
    [status |-> "pending", progress |-> None, completed_at |-> None,
     report |-> None]

\* The row create_job inserts.
create_job ==
    [status |-> "pending", progress |-> Some(0), completed_at |-> None,
     report |-> None]

\* update_data holds the status, the clamped progress only when one is given,
\* and completed_at only for "completed".
update_job_status(row, status, progress) ==
    LET withStatus == [row EXCEPT !.status = status]
        withProgress ==
            IF progress # None
            THEN [withStatus EXCEPT
                    !.progress = Some(Max(0, Min(100, progress[1])))]
            ELSE withStatus
    IN  IF status = "completed"
        THEN [withProgress EXCEPT !.completed_at = Some("now")]
        ELSE withProgress

update_job_report(row, report) == [row EXCEPT !.report = Some(report)]

\* Faulty variant: the step is stored counted from zero.
add_iteration_zero_based(rows, job, step, action) ==
    Append(rows, [job_id |-> job, step |-> step - 1, action |-> action])

\* An insert that returns no row raises, and stored no row.
add_iteration(rows, job, step, action) ==
    Append(rows, [job_id |-> job, step |-> step, action |-> action])

\* The table's UNIQUE (job_id, url) constraint rejects the insert of a row
\* whose pair is already stored.
unique_violation(rows, job, url) ==
    \E i \in 1..Len(rows) : rows[i].job_id = job /\ rows[i].url = url

\* client.table("research_sources").insert(source_data)
insert_source(rows, source_data) == Append(rows, source_data)

\* Faulty variant: the update is filtered by job_id only.
update_source_of_job(rows, source_data) ==
    [i \in 1..Len(rows) |->
        IF rows[i].job_id = source_data.job_id THEN source_data ELSE rows[i]]

\* client.table("research_sources").update(source_data)
\*     .eq("job_id", job_id).eq("url", url)
update_source(rows, source_data) ==
    [i \in 1..Len(rows) |->
        IF rows[i].job_id = source_data.job_id /\ rows[i].url = source_data.url
        THEN source_data ELSE rows[i]]

\* add_source with both of its database calls returning: insert; on the
\* UNIQUE (job_id, url) conflict, update the existing row.
add_source(rows, job, url, title, snippet) ==
    LET source_data == [job_id |-> job, url |-> url, title |-> title,
                        snippet |-> snippet, content |-> None]
    IN  IF unique_violation(rows, job, url)
        THEN update_source(rows, source_data)
        ELSE insert_source(rows, source_data)

\* Calls of add_source that run concurrently, and what they are given.
MaxSourceCalls == 3
SourceCallIds == 1..MaxSourceCalls
Urls == {1, 2}
Titles == {1, 2}

\* The messages of the exceptions an insert raises: the unique violation of
\* the database, or any other failure.
DuplicateKeyError == "duplicate key value violates unique constraint"
ConnectionError == "connection reset"

NewSourceCall ==
    [pc |-> "idle", source_data |-> None, error |-> None]

\* "duplicate" in str(insert_error).lower() or "unique" in ..., line 221
is_duplicate(insert_error) == insert_error = DuplicateKeyError

\* add_source is called: it runs to the await of the insert.
AddSource(c, job, url, title) ==
    /\ sourceCalls[c].pc = "idle"
    /\ sourceCalls' = [sourceCalls EXCEPT ![c] =
          [pc |-> "insert",
           source_data |-> Some([job_id |-> job, url |-> url, title |-> title,
                                 snippet |-> "snippet", content |-> None]),
           error |-> None]]
    /\ UNCHANGED <<dbVars, engineVars, tasks, managerVars, client, tool, endpoint,
                   cancel_requested>>

\* What add_source does with the exception of its insert, lines 219-231: on
\* a duplicate it goes on to the await of the update, else it re-raises.
on_insert_error(call, insert_error) ==
    IF is_duplicate(insert_error)
    THEN [call EXCEPT !.pc = "update"]
    ELSE [call EXCEPT !.pc = "raised", !.error = Some(insert_error)]

\* The awaited insert returns or raises, lines 212-238.
AddSourceInsert(c, outcome) ==
    /\ sourceCalls[c].pc = "insert"
    /\ LET call == sourceCalls[c]
           source_data == call.source_data[1]
       IN  IF outcome = "raise"
           THEN /\ sourceCalls' = [sourceCalls EXCEPT ![c] =
                                      on_insert_error(call, ConnectionError)]
                /\ UNCHANGED research_sources
           ELSE IF unique_violation(research_sources, source_data.job_id,
                                    source_data.url)
                THEN /\ sourceCalls' = [sourceCalls EXCEPT ![c] =
                                           on_insert_error(call, DuplicateKeyError)]
                     /\ UNCHANGED research_sources
                ELSE /\ research_sources' =
                           insert_source(research_sources, source_data)
                     /\ sourceCalls' = [sourceCalls EXCEPT ![c].pc = "returned"]
    /\ UNCHANGED <<research_jobs, research_iterations, engineVars, tasks,
                   managerVars, client, tool, endpoint, cancel_requested>>

\* The awaited update returns or raises, lines 223-238; an update that
\* matched no row returns no data and ValueError is raised.
AddSourceUpdate(c, outcome) ==
    /\ sourceCalls[c].pc = "update"
    /\ LET call == sourceCalls[c]
           source_data == call.source_data[1]
       IN  IF outcome = "raise"
           THEN /\ sourceCalls' = [sourceCalls EXCEPT ![c] =
                       [call EXCEPT !.pc = "raised", !.error = Some(ConnectionError)]]
                /\ UNCHANGED research_sources
           ELSE /\ research_sources' = update_source(research_sources, source_data)
                /\ sourceCalls' = [sourceCalls EXCEPT ![c] =
                       IF unique_violation(research_sources, source_data.job_id,
                                           source_data.url)
                       THEN [call EXCEPT !.pc = "returned"]
                       ELSE [call EXCEPT !.pc = "raised",
                                         !.error = Some("No data returned")]]
    /\ UNCHANGED <<research_jobs, research_iterations, engineVars, tasks,
                   managerVars, client, tool, endpoint, cancel_requested>>

NextSources ==
    \/ \E c \in SourceCallIds, job \in JobIds, url \in Urls, title \in Titles :
          AddSource(c, job, url, title)
    \/ \E c \in SourceCallIds, outcome \in Outcomes : AddSourceInsert(c, outcome)
    \/ \E c \in SourceCallIds, outcome \in Outcomes : AddSourceUpdate(c, outcome)

\* ---------------------------------------------------------------------------
\* Tools: tools/tool_registry.py, tools/web_search.py, tools/web_fetch.py.
\* `tool` is one call of ToolRegistry.execute_tool. A Python str is the
\* sequence of its characters; None is an absent parameter.
\* ---------------------------------------------------------------------------

\* max_words=10000, web_fetch.py line 114
max_words == 10000

\* count = min(count, 10), web_search.py line 66
max_count == 10

\* parameters.get("count", 10), tool_registry.py line 103
default_count == 10

\* execute_tool not called yet
NewToolCall ==
    [pc |-> "idle", tool_name |-> "", parameters |-> None, called |-> <<>>,
     count |-> None, url |-> None, response |-> None, result |-> None,
     error |-> None]

\* str.isspace for the characters drawn here
isspace(c) == c \in {" ", "\n", "\t"}

\* str.strip(): without the leading and trailing whitespace
strip(s) ==
    LET inked == {i \in 1..Len(s) : ~isspace(s[i])}
    IN  IF inked = {} THEN <<>>
        ELSE SubSeq(s, CHOOSE i \in inked : \A k \in inked : i <= k,
                       CHOOSE i \in inked : \A k \in inked : i >= k)

\* str.startswith(prefix)
startswith(s, prefix) ==
    /\ Len(s) >= Len(prefix)
    /\ SubSeq(s, 1, Len(prefix)) = prefix

\* seq[:stop] of Python, a negative stop counting from the end
slice_to(seq, stop) ==
    IF stop >= 0
    THEN SubSeq(seq, 1, Min(stop, Len(seq)))
    ELSE SubSeq(seq, 1, Max(Len(seq) + stop, 0))

\* content.split() over content[lo..hi]: the maximal runs of characters that
\* are not whitespace, in order. The two halves are split apart and a word
\* that runs across the middle is put back together.
RECURSIVE split_range(_, _, _)
split_range(content, lo, hi) ==
    IF lo > hi THEN <<>>
    ELSE IF lo = hi
    THEN IF isspace(content[lo]) THEN <<>> ELSE << <<content[lo]>> >>
    ELSE LET mid == (lo + hi) \div 2
             left == split_range(content, lo, mid)
             right == split_range(content, mid + 1, hi)
         IN  IF ~isspace(content[mid]) /\ ~isspace(content[mid + 1])
             THEN SubSeq(left, 1, Len(left) - 1)
                    \o << left[Len(left)] \o right[1] >> \o Tail(right)
             ELSE left \o right

\* content.split(), web_fetch.py lines 43 and 117
split(content) == split_range(content, 1, Len(content))

RECURSIVE join_range(_, _, _)
join_range(words, lo, hi) ==
    IF lo = hi THEN words[lo]
    ELSE LET mid == (lo + hi) \div 2
         IN  join_range(words, lo, mid) \o <<" ">> \o join_range(words, mid + 1, hi)

\* " ".join(words), web_fetch.py line 46
join(words) == IF words = <<>> THEN <<>> ELSE join_range(words, 1, Len(words))

\* Faulty variant: the content is cut after max characters.
truncate_content_at_character(content, max) ==
    IF Len(content) <= max THEN content ELSE SubSeq(content, 1, max)

\* WebFetchTool._truncate_content, web_fetch.py lines 32-46
truncate_content(content, max) ==
    LET words == split(content)
    IN  IF Len(words) <= max THEN content ELSE join(slice_to(words, max))

\* The texts a page is drawn from: word i is "ab" or "c".
Word(i) == IF i % 2 = 0 THEN <<"a", "b">> ELSE <<"c">>

\* The whitespace after word i: one space, or a mix of tabs and line ends.
Separator(i, style) ==
    IF style = "spaces" THEN <<" ">>
    ELSE IF i % 3 = 0 THEN <<"\n", " ">> ELSE <<"\t">>

RECURSIVE TextRange(_, _, _)
TextRange(lo, hi, style) ==
    IF lo > hi THEN <<>>
    ELSE IF lo = hi THEN Word(lo) \o Separator(lo, style)
    ELSE LET mid == (lo + hi) \div 2
         IN  TextRange(lo, mid, style) \o TextRange(mid + 1, hi, style)

\* A page of n words; "spaces" has no whitespace at either end, "mixed" has a
\* line end before the first word and whitespace after the last.
Text(n, style) ==
    IF style = "spaces"
    THEN SubSeq(TextRange(1, n, style), 1, Len(TextRange(1, n, style)) - 1)
    ELSE <<"\n">> \o TextRange(1, n, style)

WordCounts == {0, 1, 2, 3, max_words - 1, max_words, max_words + 1, max_words + 2000}
Styles == {"spaces", "mixed"}

\* response.text, web_fetch.py line 100
Texts == {Text(n, style) : n \in WordCounts, style \in Styles}

\* self._extract_title_from_markdown(content), web_fetch.py lines 48-62: no
\* text drawn here has a "#", so none has a heading.
extract_title_from_markdown(content) == <<>>

http == <<"h", "t", "t", "p", ":", "/", "/">>
https == <<"h", "t", "t", "p", "s", ":", "/", "/">>

\* The index of the first "/" of s, or Len(s) + 1.
first_slash(s) ==
    IF \E i \in 1..Len(s) : s[i] = "/"
    THEN CHOOSE i \in 1..Len(s) : s[i] = "/" /\ \A k \in 1..(i - 1) : s[k] # "/"
    ELSE Len(s) + 1

\* The index after the last "/" of s, or 1.
after_last_slash(s) ==
    IF \E i \in 1..Len(s) : s[i] = "/"
    THEN 1 + CHOOSE i \in 1..Len(s) : s[i] = "/" /\ \A k \in (i + 1)..Len(s) : s[k] # "/"
    ELSE 1

\* parsed.netloc or parsed.path.split("/")[-1] or url, web_fetch.py lines
\* 107-109, of a url that starts with http:// or https://
fallback_title(url) ==
    LET rest == IF startswith(url, https)
                THEN SubSeq(url, Len(https) + 1, Len(url))
                ELSE SubSeq(url, Len(http) + 1, Len(url))
        netloc == SubSeq(rest, 1, first_slash(rest) - 1)
        path == SubSeq(rest, first_slash(rest), Len(rest))
        last == SubSeq(path, after_last_slash(path), Len(path))
    IN  IF netloc # <<>> THEN netloc ELSE IF last # <<>> THEN last ELSE url

\* The url parameter of web_fetch: absent, empty, blank, without and with a
\* scheme, with whitespace around it.
FetchUrls ==
    {None, Some(<<>>), Some(<<" ">>), Some(<<"x", ".", "y">>),
     Some(https \o <<"x", ".", "y", "/", "p">>),
     Some(<<" ">> \o http \o <<"x", ".", "y">> \o <<"\n">>)}

Modes == {None, Some("reader"), Some("raw")}

\* The query parameter of web_search: absent, a string, a list of strings.
Queries ==
    {None,
     Some([kind |-> "str", value |-> <<>>]),
     Some([kind |-> "str", value |-> <<" ">>]),
     Some([kind |-> "str", value |-> <<"q">>]),
     Some([kind |-> "list", value |-> <<>>]),
     Some([kind |-> "list", value |-> << <<"q">>, <<"r">> >>]),
     Some([kind |-> "list", value |-> << <<>> >>])}

\* The count parameter of web_search.
Counts == {None, Some(-1), Some(0), Some(3), Some(max_count), Some(max_count + 10)}

ToolNames == {"web_search", "web_fetch", "web_scrape", "", "WEB_SEARCH"}

\* The parameters of a call: one of the two tools' parameters.
Parameters ==
    {[query |-> q, count |-> c, url |-> None, mode |-> None] :
        q \in Queries, c \in Counts}
    \cup {[query |-> None, count |-> None, url |-> u, mode |-> m] :
        u \in FetchUrls, m \in Modes}

\* What the provider's client call does: a response with a status, or an
\* exception of httpx, or another exception.
ProviderErrors == {"RequestError", "TimeoutException", "Exception"}

\* An item of the search provider's results; an absent or empty title, url or
\* description is <<>> (item.get("title", "") and the like, lines 91-93).
Item(i, pattern) ==
    [title |-> IF pattern = "some without title" /\ i % 3 = 1 THEN <<>> ELSE <<"t", i>>,
     url |-> IF pattern = "some without url" /\ i % 3 = 2 THEN <<>> ELSE <<"u", i>>,
     description |-> IF i % 2 = 0 THEN <<>> ELSE <<"d", i>>]

ItemPatterns == {"complete", "some without title", "some without url"}
ResultCounts == {0, 1, 3, max_count, max_count + 2}

\* data.get("web", {}).get("results", []), web_search.py line 85
RawResults ==
    {[i \in 1..n |-> Item(i, pattern)] : n \in ResultCounts, pattern \in ItemPatterns}

SearchResponses ==
    {[kind |-> "response", status_code |-> 200, json |-> TRUE, raw_results |-> raw] :
        raw \in RawResults}
    \cup {[kind |-> "response", status_code |-> 200, json |-> FALSE, raw_results |-> <<>>]}
    \cup {[kind |-> "response", status_code |-> s, json |-> TRUE, raw_results |-> <<>>] :
        s \in {429, 500}}
    \cup {[kind |-> e, status_code |-> 0, json |-> FALSE, raw_results |-> <<>>] :
        e \in ProviderErrors}

FetchResponses ==
    {[kind |-> "response", status_code |-> 200, text |-> t] : t \in Texts}
    \cup {[kind |-> "response", status_code |-> s, text |-> <<>>] : s \in {404, 500}}
    \cup {[kind |-> e, status_code |-> 0, text |-> <<>>] : e \in ProviderErrors}

\* response.raise_for_status()
raise_for_status(response) == response.status_code >= 400

\* Faulty variant: a name that is not web_search is taken for web_fetch.
branch_of_two(tool_name) ==
    IF tool_name = "web_search" THEN "web_search" ELSE "web_fetch"

\* The branch execute_tool takes, tool_registry.py lines 101, 109, 117
branch_of(tool_name) ==
    IF tool_name = "web_search" THEN "web_search"
    ELSE IF tool_name = "web_fetch" THEN "web_fetch"
    ELSE "unknown"

\* return {"tool": "web_search", "results": results}, lines 105-108
search_returns(call, results) ==
    [call EXCEPT !.pc = "returned",
                 !.result = Some([tool |-> "web_search", results |-> results])]

\* return {"tool": "web_fetch", "content": content}, lines 113-116
fetch_returns(call, content) ==
    [call EXCEPT !.pc = "returned",
                 !.result = Some([tool |-> "web_fetch", content |-> content])]

\* WebSearchTool.search up to its request, web_search.py lines 51-80
search(call, query, count) ==
    LET called == [call EXCEPT !.called = <<"web_search">>]
        first == IF query # None /\ query[1].kind = "list" /\ query[1].value # <<>>
                 THEN Some([kind |-> "str", value |-> query[1].value[1]])
                 ELSE query
    IN  IF query # None /\ query[1].kind = "list" /\ query[1].value = <<>>
        THEN search_returns(called, <<>>)
        ELSE IF first = None \/ first[1].value = <<>> \/ strip(first[1].value) = <<>>
        THEN search_returns(called, <<>>)
        ELSE [called EXCEPT !.pc = "awaiting", !.count = Some(Min(count, max_count))]

\* The results of a provider response, web_search.py lines 85-100
format_results(raw_results, count) ==
    LET items == slice_to(raw_results, count)
        result(item) == [title |-> item.title, url |-> item.url,
                         snippet |-> item.description]
    IN  SelectSeq([i \in 1..Len(items) |-> result(items[i])],
                  LAMBDA r : r.title # <<>> /\ r.url # <<>>)

\* WebSearchTool.search after its request, web_search.py lines 80-113
on_search_response(call, response) ==
    LET answered == [call EXCEPT !.response = Some(response)]
    IN  IF response.kind # "response" \/ raise_for_status(response) \/ ~response.json
        THEN search_returns(answered, <<>>)
        ELSE search_returns(answered, format_results(response.raw_results, call.count[1]))

\* WebFetchTool.fetch up to its request, web_fetch.py lines 80-96
fetch(call, url) ==
    LET called == [call EXCEPT !.called = <<"web_fetch">>]
        stripped == strip(url[1])
    IN  IF url = None \/ url[1] = <<>> \/ stripped = <<>>
        THEN fetch_returns(called, [error |-> "Empty URL provided"])
        ELSE [called EXCEPT
                !.pc = "awaiting",
                !.url = Some(IF startswith(stripped, http) \/ startswith(stripped, https)
                             THEN stripped ELSE https \o stripped)]

\* Faulty variant: a timeout of the provider is raised again.
on_fetch_error_reraise(call, response) ==
    IF response.kind = "TimeoutException"
    THEN [call EXCEPT !.pc = "raised",
                      !.error = Some([type |-> "TimeoutException", tool_name |-> ""])]
    ELSE fetch_returns(call,
            [error |-> IF response.kind = "response"
                       THEN "HTTP error " \o ToString(response.status_code)
                                \o ": Failed to fetch content"
                       ELSE IF response.kind = "RequestError"
                       THEN "Request error: Failed to fetch content"
                       ELSE "Unexpected error"])

\* The except clauses of fetch, web_fetch.py lines 129-140. TimeoutException
\* is a RequestError and is caught by the clause of line 132.
on_fetch_error(call, response) ==
    fetch_returns(call,
        [error |-> IF response.kind = "response"
                   THEN "HTTP error " \o ToString(response.status_code)
                            \o ": Failed to fetch content"
                   ELSE IF response.kind \in {"RequestError", "TimeoutException"}
                   THEN "Request error: Failed to fetch content"
                   ELSE "Unexpected error"])

\* WebFetchTool.fetch after its request, web_fetch.py lines 96-140
on_fetch_response(call, response) ==
    LET answered == [call EXCEPT !.response = Some(response)]
        heading == extract_title_from_markdown(response.text)
        truncated_content == truncate_content(response.text, max_words)
    IN  IF response.kind # "response" \/ raise_for_status(response)
        THEN on_fetch_error(answered, response)
        ELSE fetch_returns(answered,
                [url |-> call.url[1],
                 title |-> IF heading # <<>> THEN heading ELSE fallback_title(call.url[1]),
                 content |-> truncated_content,
                 word_count |-> Len(split(truncated_content))])

notToolVars ==
    <<dbVars, engineVars, tasks, managerVars, client, sourceCalls, endpoint,
      cancel_requested>>

\* ToolRegistry.execute_tool, tool_registry.py lines 86-118, up to the
\* request of the tool it calls.
ExecuteTool(tool_name, parameters) ==
    /\ tool.pc = "idle"
    /\ LET call == [tool EXCEPT !.tool_name = tool_name,
                                !.parameters = Some(parameters)]
       IN  tool' =
             CASE branch_of(tool_name) = "web_search" ->
                    search(call, parameters.query,
                           IF parameters.count = None THEN default_count
                           ELSE parameters.count[1])
               [] branch_of(tool_name) = "web_fetch" ->
                    fetch(call, parameters.url)
               [] OTHER ->
                    [call EXCEPT !.pc = "raised",
                                 !.error = Some([type |-> "ValueError",
                                                 tool_name |-> tool_name])]
    /\ UNCHANGED notToolVars

\* The search provider answers, and search and execute_tool return.
SearchResponse(response) ==
    /\ tool.pc = "awaiting"
    /\ tool.called = <<"web_search">>
    /\ tool' = on_search_response(tool, response)
    /\ UNCHANGED notToolVars

\* The content provider answers, and fetch and execute_tool return.
FetchResponse(response) ==
    /\ tool.pc = "awaiting"
    /\ tool.called = <<"web_fetch">>
    /\ tool' = on_fetch_response(tool, response)
    /\ UNCHANGED notToolVars

NextTools ==
    \/ \E tool_name \in ToolNames, parameters \in Parameters :
          ExecuteTool(tool_name, parameters)
    \/ \E response \in SearchResponses : SearchResponse(response)
    \/ \E response \in FetchResponses : FetchResponse(response)

----------------------------------------------------------------------------
(* Events: the messages ConnectionManager.broadcast_* build *)

StatusEvent(job, status, progress) ==
    [type |-> "status", job_id |-> job, status |-> status, progress |-> progress]
IterationEvent(job, step, action) ==
    [type |-> "iteration", job_id |-> job, step |-> step, action |-> action]
SourceEvent(job, url, title) ==
    [type |-> "source", job_id |-> job, url |-> url, title |-> title]
ReportEvent(job, report) ==
    [type |-> "report", job_id |-> job, report |-> report]
ErrorEvent(job, message) ==
    [type |-> "error", job_id |-> job, error |-> message]

\* The messages websocket_endpoint sends to its own WebSocket,
\* api/websocket.py lines 203-207, 229-233, 244-248, 262-266
PersonalMessage(type, job, data) == [type |-> type, job_id |-> job, data |-> data]

ConnectedMessage(job) ==
    PersonalMessage("connected", job, [message |-> "WebSocket connected successfully"])

PongMessage(job) == PersonalMessage("pong", job, [message |-> "pong"])

InvalidJSONMessage(job) == PersonalMessage("error", job, [error |-> "Invalid JSON format"])

InternalErrorMessage(job) ==
    PersonalMessage("error", job, [error |-> "Internal error processing message"])

\* websocket_endpoint after manager.connect returned: about to send the
\* connection confirmation.
NewEndpoint == [pc |-> "greeting", data |-> None, reply |-> None]

\* A broadcast task as asyncio.create_task queues it: not yet started.
NewTask(message) ==
    [message |-> message, started |-> FALSE, connections |-> {}, todo |-> {},
     sending |-> None, sent |-> {}, disconnected |-> {}]

RECURSIVE NewTasks(_)
NewTasks(messages) ==
    IF messages = <<>> THEN <<>>
    ELSE <<NewTask(Head(messages))>> \o NewTasks(Tail(messages))

\* asyncio.create_task(connection_manager.broadcast_*(...)) for each message.
create_task(messages) ==
    /\ emitted' = emitted \o messages
    /\ tasks' = tasks \o NewTasks(messages)

\* Faulty variant: the creator awaits the broadcasts it created.
AllFinished == tasks = <<>>

\* Every task created so far has taken its first step.
AllStarted == \A i \in 1..Len(tasks) : tasks[i].started

----------------------------------------------------------------------------
(* TongyiClient.chat_completion, app/orchestrator/tongyi_client.py *)

max_attempts == 3
delays == <<1, 2, 4>>

\* Values of a Retry-After header: seconds, or an HTTP date.
RetryAfterHeaders == {"0", "7", "Wed, 21 Oct 2015 07:28:00 GMT"}

\* float(text): the number a numeric text denotes; any other text raises
\* ValueError (None).
float(text) ==
    CASE text = "0" -> Some(0)
      [] text = "7" -> Some(7)
      [] OTHER -> None

\* Bodies of a 2xx response: a completion; text that is not JSON; JSON
\* without "choices"; with an empty "choices" list; whose first choice has no
\* "message"; whose first choice's "message" is a string, not an object.
Bodies ==
    {"completion", "not json", "no choices", "empty choices", "no message",
     "message not object"}

\* The exception the parsing and validation of a 2xx response raises, lines
\* 122-213, if any: response.json() failing and the three structure checks
\* raise ValueError; message.get("tool_calls", []) on a message that is a
\* string raises AttributeError.
parsing_error(body) ==
    CASE body = "completion" -> None
      [] body = "message not object" -> Some("AttributeError")
      [] OTHER -> Some("ValueError")

\* What one self.client.post(...) does: it returns a response (a status
\* code, the Retry-After header of a 429, whether the body of a 200 is a
\* completion with choices), or raises.
Responses ==
    {[kind |-> "response", status_code |-> 200, retry_after |-> None, body |-> b] :
        b \in Bodies}
    \cup {[kind |-> "response", status_code |-> c, retry_after |-> None, body |-> "error"] :
             c \in {400, 500, 503}}
    \cup {[kind |-> "response", status_code |-> 429, retry_after |-> h, body |-> "error"] :
             h \in {None} \cup {Some(t) : t \in RetryAfterHeaders}}

Raised ==
    {[kind |-> k, status_code |-> 0, retry_after |-> None, body |-> "none"] :
        k \in {"RequestError", "TimeoutException", "Exception"}}

BackendOutcomes == Responses \cup Raised

\* The state of a call before its first request.
NewCall ==
    [pc |-> "idle", attempt |-> 0, requests |-> <<>>, sleeping |-> None,
     slept |-> <<>>, result |-> None, error |-> None]

\* Faulty variant: the delay of attempt 0 is the second of the list.
backoff_from_second(attempt) == delays[Min(attempt + 1, Len(delays) - 1) + 1]

\* delays[min(attempt, len(delays) - 1)], attempt counted from 0
backoff(attempt) == delays[Min(attempt, Len(delays) - 1) + 1]

\* response.raise_for_status()
is_success(outcome) == outcome.status_code \in 200..299

returns(call, outcome) ==
    [call EXCEPT !.pc = "returned", !.result = Some(outcome)]

raises(call, exception) ==
    [call EXCEPT !.pc = "raised", !.error = Some(exception)]

sleeps(call, delay) ==
    [call EXCEPT !.pc = "sleeping", !.sleeping = Some(delay)]

\* The except clauses that retry, lines 224-231, 233-241 and 258-266: sleep
\* the backoff delay unless this was the last attempt, then re-raise.
retry_or_raise(call, exception) ==
    IF call.attempt < max_attempts - 1
    THEN sleeps(call, backoff(call.attempt))
    ELSE raises(call, exception)

\* except httpx.HTTPStatusError, lines 215-231
on_status_error(call, outcome) ==
    LET exception == [type |-> "HTTPStatusError", status_code |-> outcome.status_code]
    IN  IF outcome.status_code \in 400..499 /\ outcome.status_code # 429
        THEN raises(call, exception)
        ELSE retry_or_raise(call, exception)

\* if response.status_code == 429, lines 111-118
on_rate_limit(call, outcome) ==
    LET header == outcome.retry_after
        retry_after == IF header = None THEN Some(backoff(call.attempt))
                       ELSE float(header[1])
    IN  IF retry_after = None
        THEN raises(call, [type |-> "ValueError", status_code |-> 0])
        ELSE IF call.attempt < max_attempts - 1
             THEN sleeps(call, retry_after[1])
             ELSE on_status_error(call, outcome)

\* A 2xx response: the result is returned, or the parsing raised.  ValueError
\* and KeyError are re-raised by `except (ValueError, KeyError)`, lines
\* 253-256; any other exception is caught by `except Exception`, lines 258-266.
on_success_status(call, outcome) ==
    LET error == parsing_error(outcome.body)
    IN  IF error = None THEN returns(call, outcome)
        ELSE IF error[1] \in {"ValueError", "KeyError"}
             THEN raises(call, [type |-> error[1], status_code |-> 0])
             ELSE retry_or_raise(call, [type |-> error[1], status_code |-> 0])

\* Faulty variant: a failure that may pass is raised at once.
on_outcome_no_retry(call, outcome) ==
    CASE outcome.kind # "response" ->
            raises(call, [type |-> outcome.kind, status_code |-> 0])
      [] outcome.kind = "response" /\ outcome.status_code = 429 ->
            on_rate_limit(call, outcome)
      [] outcome.kind = "response" /\ outcome.status_code # 429
                                   /\ ~is_success(outcome) ->
            raises(call, [type |-> "HTTPStatusError",
                          status_code |-> outcome.status_code])
      [] OTHER ->
            on_success_status(call, outcome)

\* One pass of the for loop from the return (or the raise) of
\* self.client.post to the next suspension point, lines 106-266.
\* httpx.TimeoutException is a subclass of httpx.RequestError: both are
\* caught by `except httpx.RequestError`.
on_outcome(call, outcome) ==
    CASE outcome.kind # "response" ->
            retry_or_raise(call, [type |-> outcome.kind, status_code |-> 0])
      [] outcome.kind = "response" /\ outcome.status_code = 429 ->
            on_rate_limit(call, outcome)
      [] outcome.kind = "response" /\ outcome.status_code # 429
                                   /\ ~is_success(outcome) ->
            on_status_error(call, outcome)
      [] OTHER ->
            on_success_status(call, outcome)

otherVars ==
    <<dbVars, engineVars, tasks, managerVars, sourceCalls, tool, endpoint,
      cancel_requested>>

\* chat_completion is called: it runs to its first await of self.client.post.
ChatCompletion ==
    /\ client.pc = "idle"
    /\ client' = [client EXCEPT !.pc = "request"]
    /\ UNCHANGED otherVars

\* The awaited self.client.post(...) returns or raises.
Post(outcome) ==
    /\ client.pc = "request"
    /\ client' = on_outcome([client EXCEPT !.requests = Append(@, outcome)], outcome)
    /\ UNCHANGED otherVars

\* The awaited asyncio.sleep returns: the for loop takes its next attempt.
Sleep ==
    /\ client.pc = "sleeping"
    /\ client' = [client EXCEPT !.pc = "request",
                                !.attempt = @ + 1,
                                !.slept = Append(@, client.sleeping[1]),
                                !.sleeping = None]
    /\ UNCHANGED otherVars

NextClient ==
    \/ ChatCompletion
    \/ \E outcome \in BackendOutcomes : Post(outcome)
    \/ Sleep

----------------------------------------------------------------------------
(* ResearchEngine, app/orchestrator/research_engine.py *)

\* Faulty variant: the share of the iterations still to run.
progress_of_remaining(count) ==
    Min(100, ((max_iterations - count) * 100) \div max_iterations)

\* progress = min(100, (iteration_count / max_iterations) * 100)
progress_of(count) == Min(100, (count * 100) \div max_iterations)

\* execute_research_step: the action label of the step's result.
step_action == "research"

\* synthesize_results
synthesized_report == "Research synthesis pending implementation"

source_url(count) == count
source_title(count) == count

\* Faulty variant: the loop test lets one more step through.
loop_continues_inclusive(count) == count <= max_iterations

\* while iteration_count < max_iterations
loop_continues(count) == count < max_iterations

\* if iteration_count % 3 == 0
discovers_source(count) == count % 3 = 0

Init ==
    /\ research_jobs = create_job
    /\ research_iterations = <<>>
    /\ research_sources = <<>>
    /\ startPc = "called"
    /\ loopPc = "none"
    /\ loopError = None
    /\ iteration_count = 0
    /\ emitted = <<>>
    /\ tasks = <<>>
    /\ active_connections = [j \in {} |-> {}]
    /\ wsState = [w \in WebSockets |-> [pc |-> "new", job_id |-> None]]
    /\ received = [w \in WebSockets |-> None]
    /\ broadcast_raised = FALSE
    /\ client = NewCall
    /\ sourceCalls = [c \in SourceCallIds |-> NewSourceCall]
    /\ tool = NewToolCall
    /\ endpoint = [w \in WebSockets |-> NewEndpoint]
    /\ cancel_requested = FALSE

\* Faulty variant: the loop is awaited, not made a task: start_research
\* returns with the first step of the loop under way.
start_research_awaits_loop(outcome) ==
    /\ startPc = "called"
    /\ IF outcome = "ok"
       THEN /\ research_jobs' = update_job_status(research_jobs, "running", Some(0))
            /\ create_task(<<StatusEvent(job_id, "running", Some(0))>>)
            /\ loopPc' = "add_iteration"
            /\ iteration_count' = iteration_count + 1
            /\ startPc' = "returned"
       ELSE /\ startPc' = "raised"
            /\ UNCHANGED <<research_jobs, emitted, tasks, loopPc, iteration_count>>
    /\ UNCHANGED <<research_iterations, research_sources, loopError, managerVars>>
    /\ UNCHANGED serviceVars

\* Faulty variant: the failure of the first update is swallowed, and the
\* broadcast and the loop task are created all the same.
start_research_swallows(outcome) ==
    /\ startPc = "called"
    /\ IF outcome = "ok"
       THEN /\ research_jobs' = update_job_status(research_jobs, "running", Some(0))
            /\ startPc' = "returned"
       ELSE /\ startPc' = "raised"
            /\ UNCHANGED research_jobs
    /\ create_task(<<StatusEvent(job_id, "running", Some(0))>>)
    /\ loopPc' = "created"
    /\ UNCHANGED <<research_iterations, research_sources, iteration_count,
                   loopError, managerVars>>
    /\ UNCHANGED serviceVars

\* start_research: await db_update_job_status(job_id, "running", 0.0); then
\* the status broadcast and the loop task are created and the job returned.
start_research(outcome) ==
    /\ startPc = "called"
    /\ IF outcome = "ok"
       THEN /\ research_jobs' = update_job_status(research_jobs, "running", Some(0))
            /\ create_task(<<StatusEvent(job_id, "running", Some(0))>>)
            /\ loopPc' = "created"
            /\ startPc' = "returned"
       ELSE /\ startPc' = "raised"
            /\ UNCHANGED <<research_jobs, emitted, tasks, loopPc>>
    /\ UNCHANGED <<research_iterations, research_sources, iteration_count,
                   loopError, managerVars>>
    /\ UNCHANGED serviceVars

\* The loop task's first step: it runs to its first await.
LoopStart ==
    /\ loopPc = "created"
    /\ AllStarted
    /\ loopPc' = "status_running"
    /\ UNCHANGED <<dbVars, startPc, loopError, iteration_count, emitted, tasks,
                   managerVars>>
    /\ UNCHANGED serviceVars

\* The top of the while loop: one more step (up to the await of
\* add_iteration), or on to the synthesis (up to the await of
\* update_job_report).
while_loop ==
    IF loop_continues(iteration_count)
    THEN /\ iteration_count' = iteration_count + 1
         /\ loopPc' = "add_iteration"
    ELSE /\ iteration_count' = iteration_count
         /\ loopPc' = "update_report"

\* except Exception as e: control reaches the handler's await of
\* db_update_job_status(job_id, "failed", None).
raise_in_loop(call) ==
    /\ loopPc' = "handler"
    /\ loopError' = Some(call)

\* await db_update_job_status(job_id, "running", 0.0), lines 100-107
LoopStatusRunning(outcome) ==
    /\ loopPc = "status_running"
    /\ AllStarted
    /\ IF outcome = "ok"
       THEN /\ research_jobs' = update_job_status(research_jobs, "running", Some(0))
            /\ create_task(<<StatusEvent(job_id, "running", Some(0))>>)
            /\ while_loop
            /\ UNCHANGED loopError
       ELSE /\ raise_in_loop("update_job_status")
            /\ UNCHANGED <<research_jobs, emitted, tasks, iteration_count>>
    /\ UNCHANGED <<research_iterations, research_sources, startPc, managerVars>>
    /\ UNCHANGED serviceVars

\* Faulty variant: the iteration event is broadcast before the row is stored.
LoopAddIteration_emit_first(outcome) ==
    /\ loopPc = "add_iteration"
    /\ AllStarted
    /\ create_task(<<IterationEvent(job_id, iteration_count, step_action)>>)
    /\ IF outcome = "ok"
       THEN /\ research_iterations' =
                  add_iteration(research_iterations, job_id, iteration_count,
                                step_action)
            /\ loopPc' = "update_progress"
            /\ UNCHANGED loopError
       ELSE /\ raise_in_loop("add_iteration")
            /\ UNCHANGED research_iterations
    /\ UNCHANGED <<research_jobs, research_sources, startPc, iteration_count,
                   managerVars>>
    /\ UNCHANGED serviceVars

\* await add_iteration(job_id, iteration_count, action, results), lines 121-140
LoopAddIteration(outcome) ==
    /\ loopPc = "add_iteration"
    /\ AllStarted
    /\ IF outcome = "ok"
       THEN /\ research_iterations' =
                  add_iteration(research_iterations, job_id, iteration_count,
                                step_action)
            /\ create_task(<<IterationEvent(job_id, iteration_count, step_action)>>)
            /\ loopPc' = "update_progress"
            /\ UNCHANGED loopError
       ELSE /\ raise_in_loop("add_iteration")
            /\ UNCHANGED <<research_iterations, emitted, tasks>>
    /\ UNCHANGED <<research_jobs, research_sources, startPc, iteration_count,
                   managerVars>>
    /\ UNCHANGED serviceVars

\* Faulty variant: the progress is broadcast before it is stored.
LoopUpdateProgress_emit_first(outcome) ==
    /\ loopPc = "update_progress"
    /\ AllStarted
    /\ create_task(<<StatusEvent(job_id, "running",
                                 Some(progress_of(iteration_count)))>>)
    /\ IF outcome = "ok"
       THEN /\ research_jobs' =
                  update_job_status(research_jobs, "running",
                                    Some(progress_of(iteration_count)))
            /\ loopPc' = IF discovers_source(iteration_count)
                         THEN "add_source" ELSE "sleep"
            /\ UNCHANGED loopError
       ELSE /\ raise_in_loop("update_job_status")
            /\ UNCHANGED research_jobs
    /\ UNCHANGED <<research_iterations, research_sources, startPc,
                   iteration_count, managerVars>>
    /\ UNCHANGED serviceVars

\* await db_update_job_status(job_id, "running", progress), lines 139-155
LoopUpdateProgress(outcome) ==
    /\ loopPc = "update_progress"
    /\ AllStarted
    /\ IF outcome = "ok"
       THEN /\ research_jobs' =
                  update_job_status(research_jobs, "running",
                                    Some(progress_of(iteration_count)))
            /\ create_task(<<StatusEvent(job_id, "running",
                                         Some(progress_of(iteration_count)))>>)
            /\ loopPc' = IF discovers_source(iteration_count)
                         THEN "add_source" ELSE "sleep"
            /\ UNCHANGED loopError
       ELSE /\ raise_in_loop("update_job_status")
            /\ UNCHANGED <<research_jobs, emitted, tasks>>
    /\ UNCHANGED <<research_iterations, research_sources, startPc,
                   iteration_count, managerVars>>
    /\ UNCHANGED serviceVars

\* await add_source(job_id, source_url, source_title, source_snippet), lines 154-170
LoopAddSource(outcome) ==
    /\ loopPc = "add_source"
    /\ AllStarted
    /\ IF outcome = "ok"
       THEN /\ research_sources' =
                  add_source(research_sources, job_id, source_url(iteration_count),
                             source_title(iteration_count), "snippet")
            /\ create_task(<<SourceEvent(job_id, source_url(iteration_count),
                                         source_title(iteration_count))>>)
            /\ loopPc' = "sleep"
            /\ UNCHANGED loopError
       ELSE /\ raise_in_loop("add_source")
            /\ UNCHANGED <<research_sources, emitted, tasks>>
    /\ UNCHANGED <<research_jobs, research_iterations, startPc, iteration_count,
                   managerVars>>
    /\ UNCHANGED serviceVars

\* await asyncio.sleep(0.1), then the loop test, lines 170-177
LoopSleep ==
    /\ loopPc = "sleep"
    /\ AllStarted
    /\ while_loop
    /\ UNCHANGED <<dbVars, startPc, loopError, emitted, tasks, managerVars>>
    /\ UNCHANGED serviceVars

\* Faulty variant: the report is stored and never broadcast.
LoopUpdateReport_silent(outcome) ==
    /\ loopPc = "update_report"
    /\ AllStarted
    /\ IF outcome = "ok"
       THEN /\ research_jobs' = update_job_report(research_jobs, synthesized_report)
            /\ loopPc' = "status_completed"
            /\ UNCHANGED loopError
       ELSE /\ raise_in_loop("update_job_report")
            /\ UNCHANGED research_jobs
    /\ UNCHANGED <<research_iterations, research_sources, startPc,
                   iteration_count, emitted, tasks, managerVars>>
    /\ UNCHANGED serviceVars

\* await update_job_report(job_id, report), lines 176-186
LoopUpdateReport(outcome) ==
    /\ loopPc = "update_report"
    /\ AllStarted
    /\ IF outcome = "ok"
       THEN /\ research_jobs' = update_job_report(research_jobs, synthesized_report)
            /\ create_task(<<ReportEvent(job_id, synthesized_report)>>)
            /\ loopPc' = "status_completed"
            /\ UNCHANGED loopError
       ELSE /\ raise_in_loop("update_job_report")
            /\ UNCHANGED <<research_jobs, emitted, tasks>>
    /\ UNCHANGED <<research_iterations, research_sources, startPc,
                   iteration_count, managerVars>>
    /\ UNCHANGED serviceVars

\* Faulty variant: the code after the completed status is stored raises inside the
\* try block, so the handler runs for a completed job.
LoopStatusCompleted_then_raises(outcome) ==
    /\ loopPc = "status_completed"
    /\ AllStarted
    /\ IF outcome = "ok"
       THEN /\ research_jobs' = update_job_status(research_jobs, "completed", Some(100))
            /\ create_task(<<StatusEvent(job_id, "completed", Some(100))>>)
            /\ raise_in_loop("broadcast_status")
       ELSE /\ raise_in_loop("update_job_status")
            /\ UNCHANGED <<research_jobs, emitted, tasks>>
    /\ UNCHANGED <<research_iterations, research_sources, startPc,
                   iteration_count, managerVars>>
    /\ UNCHANGED serviceVars

\* await db_update_job_status(job_id, "completed", 100.0), lines 185-192
LoopStatusCompleted(outcome) ==
    /\ loopPc = "status_completed"
    /\ AllStarted
    /\ IF outcome = "ok"
       THEN /\ research_jobs' = update_job_status(research_jobs, "completed", Some(100))
            /\ create_task(<<StatusEvent(job_id, "completed", Some(100))>>)
            /\ loopPc' = "finished"
            /\ UNCHANGED loopError
       ELSE /\ raise_in_loop("update_job_status")
            /\ UNCHANGED <<research_jobs, emitted, tasks>>
    /\ UNCHANGED <<research_iterations, research_sources, startPc,
                   iteration_count, managerVars>>
    /\ UNCHANGED serviceVars

\* What the handler stores: db_update_job_status(job_id, "failed", None).
handler_update(row) == update_job_status(row, "failed", None)

\* Faulty variant: the failed status is broadcast before the error.
handler_events_swapped(error) ==
    <<StatusEvent(job_id, "failed", None), ErrorEvent(job_id, error)>>

\* The handler's broadcasts: the error, then the failed status.
handler_events(error) ==
    <<ErrorEvent(job_id, error), StatusEvent(job_id, "failed", None)>>

\* Faulty variant: the handler rolls the job's partial records back.
LoopHandler_rollback(outcome) ==
    /\ loopPc = "handler"
    /\ AllStarted
    /\ IF outcome = "ok"
       THEN /\ research_jobs' = handler_update(research_jobs)
            /\ research_iterations' = <<>>
            /\ research_sources' = <<>>
            /\ create_task(handler_events(loopError[1]))
            /\ loopPc' = "finished"
       ELSE /\ loopPc' = "crashed"
            /\ UNCHANGED <<dbVars, emitted, tasks>>
    /\ UNCHANGED <<startPc, loopError, iteration_count, managerVars>>
    /\ UNCHANGED serviceVars

\* except Exception: await db_update_job_status(job_id, "failed", None),
\* lines 194-207.  When this call raises too, the exception leaves the task.
LoopHandler(outcome) ==
    /\ loopPc = "handler"
    /\ AllStarted
    /\ IF outcome = "ok"
       THEN /\ research_jobs' = handler_update(research_jobs)
            /\ create_task(handler_events(loopError[1]))
            /\ loopPc' = "finished"
       ELSE /\ loopPc' = "crashed"
            /\ UNCHANGED <<research_jobs, emitted, tasks>>
    /\ UNCHANGED <<research_iterations, research_sources, startPc, loopError,
                   iteration_count, managerVars>>
    /\ UNCHANGED serviceVars

\* Positions where the loop task is suspended in a persistence call: each
\* is a bare `await asyncio.to_thread(...)`, with no timeout around it and no
\* retry.
AwaitingPersistence ==
    loopPc \in {"status_running", "add_iteration", "update_progress",
                "add_source", "update_report", "status_completed", "handler"}

\* The persistence call the loop awaits never returns: nothing in the loop
\* or in the call resumes the task.
PersistenceNeverReturns ==
    /\ AwaitingPersistence
    /\ AllStarted
    /\ loopPc' = "hung"
    /\ UNCHANGED <<dbVars, startPc, loopError, iteration_count, emitted, tasks,
                   managerVars>>
    /\ UNCHANGED serviceVars

----------------------------------------------------------------------------
(* ConnectionManager, app/api/websocket.py *)

\* The oldest task that has not started is the one asyncio runs next.
NextToStart(i) ==
    /\ i \in 1..Len(tasks)
    /\ ~tasks[i].started
    /\ \A k \in 1..(i - 1) : tasks[k].started

RemoveAt(seq, i) == SubSeq(seq, 1, i - 1) \o SubSeq(seq, i + 1, Len(seq))

\* _broadcast_to_job, lines 62-64: no entry for the job, nothing is sent.
BroadcastNoConnections(i) ==
    /\ NextToStart(i)
    /\ tasks[i].message.job_id \notin DOMAIN active_connections
    /\ tasks' = RemoveAt(tasks, i)
    /\ UNCHANGED <<dbVars, engineVars, managerVars>>
    /\ UNCHANGED serviceVars

\* Faulty variant: self.active_connections is a plain dict.
plain_dict_raises == TRUE

\* self.active_connections is a defaultdict(set), line 18: reading a missing
\* key yields (and stores) an empty set; it does not raise KeyError.
missing_key_raises == FALSE

connections_of(map, job) == IF job \in DOMAIN map THEN map[job] ELSE {}

set_entry(map, job, set) ==
    [j \in DOMAIN map \cup {job} |-> IF j = job THEN set ELSE map[j]]

del_entry(map, job) == [j \in DOMAIN map \ {job} |-> map[j]]

\* connect, line 29: self.active_connections[job_id].add(websocket)
connect(map, websocket, job) ==
    set_entry(map, job, connections_of(map, job) \cup {websocket})

\* Faulty variant: the WebSocket is discarded from the set of every job.
disconnect_every_job(map, websocket, job) ==
    LET kept == {j \in DOMAIN map : map[j] \ {websocket} # {}}
    IN  [j \in kept |-> map[j] \ {websocket}]

\* disconnect, lines 40-44
disconnect(map, websocket, job) ==
    IF job \in DOMAIN map
    THEN IF map[job] \ {websocket} = {}
         THEN del_entry(map, job)
         ELSE set_entry(map, job, map[job] \ {websocket})
    ELSE map

\* Faulty variant: the entry is kept when its set has become empty.
remove_disconnected_keep_empty(map, job, disconnected) ==
    set_entry(map, job, connections_of(map, job) \ disconnected)

\* _broadcast_to_job, lines 76-82: discard the connections whose send raised,
\* then delete the entry when it is empty.
remove_disconnected(map, job, disconnected) ==
    IF connections_of(map, job) \ disconnected = {}
    THEN del_entry(map, job)
    ELSE set_entry(map, job, connections_of(map, job) \ disconnected)

\* Faulty variant: a send that raises ends the for loop (no try around the send).
after_send_abort(task, connection, outcome) ==
    [task EXCEPT
        !.todo = IF outcome = "raise" THEN {} ELSE @ \ {connection},
        !.sending = None,
        !.sent = IF outcome = "ok" THEN @ \cup {connection} ELSE @,
        !.disconnected = IF outcome = "raise" THEN @ \cup {connection} ELSE @]

\* _broadcast_to_job, lines 69-74: one pass of the for loop, the send to
\* `connection` having returned or raised.
after_send(task, connection, outcome) ==
    [task EXCEPT
        !.todo = @ \ {connection},
        !.sending = None,
        !.sent = IF outcome = "ok" THEN @ \cup {connection} ELSE @,
        !.disconnected = IF outcome = "raise" THEN @ \cup {connection} ELSE @]

\* The for loop run without suspension: the sends to `failing` raise.
RECURSIVE send_all(_, _)
send_all(task, failing) ==
    IF task.todo = {} THEN task
    ELSE LET connection == CHOOSE c \in task.todo : TRUE
         IN  send_all(after_send(task, connection,
                                 IF connection \in failing THEN "raise" ELSE "ok"),
                      failing)

\* Faulty variant: the copy is of the connections of every job.
snapshot_all_jobs(task) ==
    [task EXCEPT
        !.started = TRUE,
        !.connections = UNION {active_connections[j] : j \in DOMAIN active_connections},
        !.todo = UNION {active_connections[j] : j \in DOMAIN active_connections}]

\* connections = self.active_connections[job_id].copy(), line 67
snapshot(task) ==
    [task EXCEPT
        !.started = TRUE,
        !.connections = active_connections[task.message.job_id],
        !.todo = active_connections[task.message.job_id]]

\* The broadcasts suspended in a send.
InFlight == {i \in 1..Len(tasks) : tasks[i].started}

\* A send reaches the peer of a WebSocket while the connection is open.  A
\* send that raises has found the connection broken ("lost"): it stays
\* broken, and the endpoint has yet to notice.
CanDeliver(websocket) == wsState[websocket].pc = "open"

deliver(last, message, websockets) ==
    [w \in WebSockets |-> IF w \in websockets THEN Some(message) ELSE last[w]]

lose(state, websockets) ==
    [w \in WebSockets |->
        IF w \in websockets /\ state[w].pc = "open"
        THEN [state[w] EXCEPT !.pc = "lost"] ELSE state[w]]

forget(last, websockets) ==
    [w \in WebSockets |-> IF w \in websockets THEN None ELSE last[w]]

\* Faulty variant: a new subscriber is sent the last event of its job.
Connect_with_replay(websocket, job, outcome) ==
    /\ wsState[websocket].pc = "new"
    /\ IF outcome = "ok"
       THEN /\ active_connections' = connect(active_connections, websocket, job)
            /\ wsState' = [wsState EXCEPT
                             ![websocket] = [pc |-> "open", job_id |-> Some(job)]]
            /\ received' =
                  IF \E k \in 1..Len(emitted) : emitted[k].job_id = job
                  THEN deliver(received,
                               emitted[CHOOSE k \in 1..Len(emitted) :
                                          /\ emitted[k].job_id = job
                                          /\ \A n \in 1..Len(emitted) :
                                                emitted[n].job_id = job => n <= k],
                               {websocket})
                  ELSE received
       ELSE /\ wsState' = [wsState EXCEPT
                             ![websocket] = [pc |-> "closed", job_id |-> Some(job)]]
            /\ UNCHANGED <<active_connections, received>>
    /\ UNCHANGED <<dbVars, engineVars, tasks, broadcast_raised>>
    /\ UNCHANGED serviceVars

\* Faulty variant: a WebSocket that is connected can be connected again, to
\* another job.
Connect_again(websocket, job, outcome) ==
    /\ wsState[websocket].pc \in {"new", "open"}
    /\ IF outcome = "ok"
       THEN /\ active_connections' = connect(active_connections, websocket, job)
            /\ wsState' = [wsState EXCEPT
                             ![websocket] = [pc |-> "open", job_id |-> Some(job)]]
       ELSE /\ wsState' = [wsState EXCEPT
                             ![websocket] = [pc |-> "closed", job_id |-> Some(job)]]
            /\ UNCHANGED active_connections
    /\ UNCHANGED <<dbVars, engineVars, tasks, received, broadcast_raised>>
    /\ UNCHANGED serviceVars

\* websocket_endpoint -> manager.connect, lines 20-30 and 193-198: accept
\* returned and the WebSocket is added to its job's set, or accept raised and
\* the endpoint returns.
Connect(websocket, job, outcome) ==
    /\ wsState[websocket].pc = "new"
    /\ IF outcome = "ok"
       THEN /\ active_connections' = connect(active_connections, websocket, job)
            /\ wsState' = [wsState EXCEPT
                             ![websocket] = [pc |-> "open", job_id |-> Some(job)]]
       ELSE /\ wsState' = [wsState EXCEPT
                             ![websocket] = [pc |-> "closed", job_id |-> Some(job)]]
            /\ UNCHANGED active_connections
    /\ UNCHANGED <<dbVars, engineVars, tasks, received, broadcast_raised>>
    /\ UNCHANGED serviceVars

\* websocket_endpoint's finally: manager.disconnect(websocket, job_id)
EndpointDisconnect(websocket) ==
    /\ wsState[websocket].pc \in {"open", "lost"}
    /\ active_connections' =
          disconnect(active_connections, websocket, wsState[websocket].job_id[1])
    /\ wsState' = [wsState EXCEPT ![websocket].pc = "closed"]
    /\ received' = forget(received, {websocket})
    /\ UNCHANGED <<dbVars, engineVars, tasks, broadcast_raised>>
    /\ UNCHANGED serviceVars

\* _broadcast_to_job, lines 76-82, and the return: the reads of
\* self.active_connections[job_id] find the entry or make it.
cleanup(task) ==
    IF missing_key_raises /\ task.message.job_id \notin DOMAIN active_connections
    THEN /\ broadcast_raised' = TRUE
         /\ UNCHANGED active_connections
    ELSE /\ active_connections' =
               remove_disconnected(active_connections, task.message.job_id,
                                   task.disconnected)
         /\ UNCHANGED broadcast_raised

\* _broadcast_to_job's first step, suspended in its first send.
BroadcastStart(i, first) ==
    /\ NextToStart(i)
    /\ tasks[i].message.job_id \in DOMAIN active_connections
    /\ Cardinality(InFlight) < MaxInFlight
    /\ first \in active_connections[tasks[i].message.job_id]
    /\ tasks' = [tasks EXCEPT ![i] =
                    [snapshot(tasks[i]) EXCEPT !.todo = @ \ {first},
                                               !.sending = Some(first)]]
    /\ UNCHANGED <<dbVars, engineVars, managerVars>>
    /\ UNCHANGED serviceVars

\* _broadcast_to_job run from its first step to its return with no send
\* suspending.
BroadcastRun(i, failing) ==
    /\ NextToStart(i)
    /\ tasks[i].message.job_id \in DOMAIN active_connections
    /\ failing \subseteq active_connections[tasks[i].message.job_id]
    /\ \A c \in active_connections[tasks[i].message.job_id] \ failing : CanDeliver(c)
    /\ LET done == send_all(snapshot(tasks[i]), failing)
       IN  /\ received' = forget(deliver(received, done.message, done.sent),
                                 done.disconnected)
           /\ wsState' = lose(wsState, done.disconnected)
           /\ cleanup(done)
    /\ tasks' = RemoveAt(tasks, i)
    /\ UNCHANGED <<dbVars, engineVars>>
    /\ UNCHANGED serviceVars

\* A suspended send returns or raises; the for loop goes on to its next send
\* (`next`), or to the cleanup and the return.
BroadcastSend(i, outcome, next) ==
    /\ i \in InFlight
    /\ outcome = "ok" => CanDeliver(tasks[i].sending[1])
    /\ LET task == after_send(tasks[i], tasks[i].sending[1], outcome)
           target == {tasks[i].sending[1]}
       IN  /\ received' = IF outcome = "ok"
                          THEN deliver(received, task.message, target)
                          ELSE forget(received, target)
           /\ wsState' = IF outcome = "ok" THEN wsState ELSE lose(wsState, target)
           /\ IF task.todo # {}
              THEN /\ next \in task.todo
                   /\ tasks' = [tasks EXCEPT ![i] =
                                   [task EXCEPT !.todo = @ \ {next},
                                                !.sending = Some(next)]]
                   /\ UNCHANGED active_connections
                   /\ UNCHANGED broadcast_raised
              ELSE /\ next = tasks[i].sending[1]
                   /\ tasks' = RemoveAt(tasks, i)
                   /\ cleanup(task)
    /\ UNCHANGED <<dbVars, engineVars>>
    /\ UNCHANGED serviceVars

\* A caller of ConnectionManager.broadcast(message), lines 167-179, for any
\* job: the message carries its job_id.
Publish(message) ==
    /\ Len(emitted) < MaxPublish
    /\ create_task(<<message>>)
    /\ UNCHANGED <<dbVars, startPc, loopPc, loopError, iteration_count, managerVars>>
    /\ UNCHANGED serviceVars

ManagerNext ==
    \/ \E w \in WebSockets : EndpointDisconnect(w)
    \/ \E i \in 1..Len(tasks) : BroadcastNoConnections(i)
    \/ \E i \in 1..Len(tasks), w \in WebSockets : BroadcastStart(i, w)
    \/ \E i \in 1..Len(tasks), failing \in SUBSET WebSockets : BroadcastRun(i, failing)
    \/ \E i \in 1..Len(tasks), outcome \in Outcomes, w \in WebSockets :
          BroadcastSend(i, outcome, w)

----------------------------------------------------------------------------

EngineNext ==
    \/ \E outcome \in Outcomes : start_research(outcome)
    \/ LoopStart
    \/ \E outcome \in Outcomes : LoopStatusRunning(outcome)
    \/ \E outcome \in Outcomes : LoopAddIteration(outcome)
    \/ \E outcome \in Outcomes : LoopUpdateProgress(outcome)
    \/ \E outcome \in Outcomes : LoopAddSource(outcome)
    \/ LoopSleep
    \/ \E outcome \in Outcomes : LoopUpdateReport(outcome)
    \/ \E outcome \in Outcomes : LoopStatusCompleted(outcome)
    \/ \E outcome \in Outcomes : LoopHandler(outcome)

Next ==
    \/ EngineNext
    \/ \E i \in 1..Len(tasks) : BroadcastNoConnections(i)

Spec == Init /\ [][Next]_vars

\* The orchestrator together with subscribers that come and go.
NextE2E ==
    \/ EngineNext
    \/ \E w \in WebSockets, outcome \in Outcomes : Connect(w, job_id, outcome)
    \/ ManagerNext

SpecE2E == Init /\ [][NextE2E]_vars

\* Every awaited persistence call returns or raises, and asyncio runs every
\* task that is ready.
FairSpec == Spec /\ WF_vars(Next)

\* The orchestrator over a persistence layer whose calls return, raise or
\* never return; asyncio runs every task that is ready.
NextUnreachable == Next \/ PersistenceNeverReturns

FairSpecUnreachable ==
    Init /\ [][NextUnreachable]_vars /\ WF_vars(NextUnreachable)

\* A created broadcast task takes its first step.
TaskStart ==
    \/ \E i \in 1..Len(tasks) : BroadcastNoConnections(i)
    \/ \E i \in 1..Len(tasks), w \in WebSockets : BroadcastStart(i, w)
    \/ \E i \in 1..Len(tasks), failing \in SUBSET WebSockets : BroadcastRun(i, failing)

\* The orchestrator and one subscriber: every awaited persistence call
\* returns or raises and asyncio runs every task that is ready, while a send
\* a broadcast is suspended in need never complete and the endpoint need
\* never end.
NextOneSubscriber ==
    \/ EngineNext
    \/ \E outcome \in Outcomes : Connect("w1", job_id, outcome)
    \/ ManagerNext

FairSpecOneSubscriber ==
    /\ Init /\ [][NextOneSubscriber]_vars
    /\ WF_vars(EngineNext) /\ WF_vars(TaskStart)

\* One call of chat_completion against a backend that answers anything.
SpecClient == Init /\ [][NextClient]_vars

\* Concurrent calls of add_source on one store.
SpecSources == Init /\ [][NextSources]_vars

SpecTools == Init /\ [][NextTools]_vars

\* The ConnectionManager on its own, under any callers.
\* ---------------------------------------------------------------------------
\* websocket_endpoint after connect, api/websocket.py lines 200-282: the
\* confirmation, the receive loop and the clean-up.
\* ---------------------------------------------------------------------------

\* What a client sends: JSON objects with type ping, with another type and
\* with no type, JSON that is not an object, and text that is not JSON.
ClientData ==
    {"{\"type\": \"ping\"}", "{\"type\": \"pause\"}", "{}", "[1]", "ping"}

\* json.loads(data) raises JSONDecodeError, line 221
is_invalid_json(data) == data \in {"ping"}

\* message.get raises AttributeError, line 225
is_not_object(data) == data \in {"[1]"}

\* msg_type = message.get("type", ""), line 225
msg_type(data) ==
    IF data = "{\"type\": \"ping\"}" THEN "ping"
    ELSE IF data = "{\"type\": \"pause\"}" THEN "pause"
    ELSE IF data = "{\"type\": \"cancel\"}" THEN "cancel"
    ELSE ""

\* The message the loop's body sends for the data it received, lines 220-266
reply_of(data, job) ==
    IF is_invalid_json(data) THEN Some(InvalidJSONMessage(job))
    ELSE IF is_not_object(data) THEN Some(InternalErrorMessage(job))
    ELSE IF msg_type(data) = "ping" THEN Some(PongMessage(job))
    ELSE None

\* Faulty variant: the answer is sent to every subscriber of the job.
send_to_job(message, websocket, outcome) ==
    /\ outcome = "ok" => CanDeliver(websocket)
    /\ received' = IF outcome = "ok"
                   THEN deliver(received, message,
                                {w \in connections_of(active_connections, message.job_id) :
                                    CanDeliver(w)})
                   ELSE forget(received, {websocket})
    /\ wsState' = IF outcome = "ok" THEN wsState ELSE lose(wsState, {websocket})

\* manager.send_personal_message, lines 47-52: send_json returned, or it
\* raised and the exception is logged.
send_personal_message(message, websocket, outcome) ==
    /\ outcome = "ok" => CanDeliver(websocket)
    /\ received' = IF outcome = "ok"
                   THEN deliver(received, message, {websocket})
                   ELSE forget(received, {websocket})
    /\ wsState' = IF outcome = "ok" THEN wsState ELSE lose(wsState, {websocket})

notManagerVars ==
    <<dbVars, engineVars, tasks, client, sourceCalls, tool, cancel_requested>>

\* Lines 201-211: the connection confirmation is sent.
Greet(websocket, outcome) ==
    /\ wsState[websocket].pc \in {"open", "lost"}
    /\ endpoint[websocket].pc = "greeting"
    /\ send_personal_message(ConnectedMessage(wsState[websocket].job_id[1]),
                             websocket, outcome)
    /\ endpoint' = [endpoint EXCEPT ![websocket].pc = "receiving"]
    /\ UNCHANGED <<active_connections, broadcast_raised>>
    /\ UNCHANGED notManagerVars

\* Lines 217-226 and 237-242: receive_text returns what the client sent; it
\* is parsed, and the loop goes on to send an answer or to receive again.
Receive(websocket, data) ==
    /\ wsState[websocket].pc = "open"
    /\ endpoint[websocket].pc = "receiving"
    /\ LET reply == reply_of(data, wsState[websocket].job_id[1])
       IN  endpoint' =
             IF reply = None THEN endpoint
             ELSE [endpoint EXCEPT ![websocket] =
                     [pc |-> "replying", data |-> Some(data), reply |-> reply]]
    /\ UNCHANGED managerVars
    /\ UNCHANGED notManagerVars

\* Lines 217-226 and 237-239: the client sent {"type": "cancel"}; the type is
\* not handled, so the message is logged and the loop receives again.
ReceiveCancel(websocket) ==
    /\ wsState[websocket].pc = "open"
    /\ endpoint[websocket].pc = "receiving"
    /\ reply_of("{\"type\": \"cancel\"}", wsState[websocket].job_id[1]) = None
    /\ cancel_requested' = TRUE
    /\ UNCHANGED <<dbVars, engineVars, tasks, managerVars, client, sourceCalls, tool,
                   endpoint>>

\* Lines 228-236, 243-250, 260-271: the answer is sent and the loop receives
\* again.
Reply(websocket, outcome) ==
    /\ wsState[websocket].pc \in {"open", "lost"}
    /\ endpoint[websocket].pc = "replying"
    /\ send_personal_message(endpoint[websocket].reply[1], websocket, outcome)
    /\ endpoint' = [endpoint EXCEPT ![websocket].pc = "receiving",
                                    ![websocket].data = None,
                                    ![websocket].reply = None]
    /\ UNCHANGED <<active_connections, broadcast_raised>>
    /\ UNCHANGED notManagerVars

\* Faulty variant: the loop is left with no cleanup: the WebSocket stays in
\* its job's set.
ReceiveDisconnect_no_cleanup(websocket) ==
    /\ wsState[websocket].pc \in {"open", "lost"}
    /\ endpoint[websocket].pc = "receiving"
    /\ wsState' = [wsState EXCEPT ![websocket].pc = "closed"]
    /\ received' = forget(received, {websocket})
    /\ endpoint' = [endpoint EXCEPT ![websocket].pc = "returned"]
    /\ UNCHANGED <<active_connections, broadcast_raised>>
    /\ UNCHANGED notManagerVars

\* Lines 217, 252-255 and 277-280: receive_text raises WebSocketDisconnect,
\* the loop is left and the WebSocket is removed from its job's set.
ReceiveDisconnect(websocket) ==
    /\ wsState[websocket].pc \in {"open", "lost"}
    /\ endpoint[websocket].pc = "receiving"
    /\ active_connections' =
          disconnect(active_connections, websocket, wsState[websocket].job_id[1])
    /\ wsState' = [wsState EXCEPT ![websocket].pc = "closed"]
    /\ received' = forget(received, {websocket})
    /\ endpoint' = [endpoint EXCEPT ![websocket].pc = "returned"]
    /\ UNCHANGED broadcast_raised
    /\ UNCHANGED notManagerVars

\* The endpoints of the WebSockets next to the broadcasts of published events.
NextEndpoint ==
    \/ \E w \in WebSockets, j \in JobIds, outcome \in Outcomes : Connect(w, j, outcome)
    \/ \E w \in WebSockets, outcome \in Outcomes : Greet(w, outcome)
    \/ \E w \in WebSockets, data \in ClientData : Receive(w, data)
    \/ \E w \in WebSockets, outcome \in Outcomes : Reply(w, outcome)
    \/ \E w \in WebSockets : ReceiveDisconnect(w)
    \/ Publish(StatusEvent(job_id, "running", Some(Len(emitted))))
    \/ \E i \in 1..Len(tasks) : BroadcastNoConnections(i)
    \/ \E i \in 1..Len(tasks), w \in WebSockets : BroadcastStart(i, w)
    \/ \E i \in 1..Len(tasks), failing \in SUBSET WebSockets : BroadcastRun(i, failing)
    \/ \E i \in 1..Len(tasks), outcome \in Outcomes, w \in WebSockets :
          BroadcastSend(i, outcome, w)

SpecEndpoint == Init /\ [][NextEndpoint]_vars

\* A job with one subscriber that may ask for a cancellation.
NextCancel ==
    \/ EngineNext
    \/ \E outcome \in Outcomes : Connect("w1", job_id, outcome)
    \/ \E outcome \in Outcomes : Greet("w1", outcome)
    \/ ReceiveCancel("w1")
    \/ ReceiveDisconnect("w1")
    \/ \E i \in 1..Len(tasks) : BroadcastNoConnections(i)
    \/ \E i \in 1..Len(tasks), w \in WebSockets : BroadcastStart(i, w)
    \/ \E i \in 1..Len(tasks), failing \in SUBSET WebSockets : BroadcastRun(i, failing)
    \/ \E i \in 1..Len(tasks), outcome \in Outcomes, w \in WebSockets :
          BroadcastSend(i, outcome, w)

SpecCancel == Init /\ [][NextCancel]_vars

\* send_json of an answer returns or raises: the endpoint does not wait for
\* ever in it.
FairSpecEndpoint ==
    SpecEndpoint /\ \A w \in WebSockets : WF_vars(\E outcome \in Outcomes : Reply(w, outcome))

NextBroadcast ==
    \/ \E w \in WebSockets, j \in JobIds, outcome \in Outcomes : Connect(w, j, outcome)
    \/ \E j \in JobIds :
          \E message \in {StatusEvent(j, "running", Some(0)),
                           ReportEvent(j, synthesized_report)} : Publish(message)
    \/ ManagerNext

SpecBroadcast == Init /\ [][NextBroadcast]_vars

----------------------------------------------------------------------------
(* Properties *)

EventsOfType(type) == {i \in 1..Len(emitted) : emitted[i].type = type}

StatusEvents(status) ==
    {i \in EventsOfType("status") : emitted[i].status = status}

LoopEnded == loopPc \in {"finished", "crashed"}

\* A persistence call or a loop step has raised.
Faulted == startPc = "raised" \/ loopError # None

\* C1: the persisted status only changes pending -> running ->
\* {completed | failed | cancelled}: a terminal status is never written over
\* and running is never followed by pending.
C1_StatusTransitions ==
    [][research_jobs'.status # research_jobs.status =>
         <<research_jobs.status, research_jobs'.status>> \in
            {<<"pending", "running">>} \cup
            {<<"running", s>> : s \in TerminalStatuses}]_vars

C1_Witness ==
    /\ research_jobs.status = "completed"
    /\ loopPc = "finished"

\* C2: once the loop task has ended, the persisted status is not running, and
\* it is failed when a step of the loop raised (also when the handler's own
\* persistence call raised).
C2_NoJobLeftRunning ==
    LoopEnded =>
        /\ research_jobs.status # "running"
        /\ loopError # None => research_jobs.status = "failed"

\* C3: the persisted iterations carry the step numbers 1..N in order, none
\* twice and none skipped, also after the loop aborted.
C3_ContiguousSteps ==
    \A i \in 1..Len(research_iterations) :
        /\ research_iterations[i].step = i
        /\ research_iterations[i].job_id = job_id

C3_Witness ==
    /\ Len(research_iterations) = 3
    /\ loopPc = "handler"

\* C4: when the job is completed the report is persisted, the progress is
\* exactly 100, one report event has been emitted, and the
\* status(completed, 100) event comes after it, once.
C4_Completed ==
    research_jobs.status = "completed" =>
        /\ research_jobs.report = Some(synthesized_report)
        /\ research_jobs.progress = Some(100)
        /\ Cardinality(EventsOfType("report")) = 1
        /\ loopPc = "finished" => Cardinality(StatusEvents("completed")) = 1
        /\ \A i \in StatusEvents("completed") :
              /\ emitted[i] = StatusEvent(job_id, "completed", Some(100))
              /\ \E k \in EventsOfType("report") : k < i

C4_Witness ==
    /\ research_jobs.status = "completed"
    /\ Cardinality(StatusEvents("completed")) = 1

IsTerminalStatus(last) ==
    /\ last # None
    /\ last[1].type = "status"
    /\ last[1].status \in TerminalStatuses

\* C5: once a subscriber has been sent the terminal status event of the job,
\* it is sent no further event of that job.
C5_NothingAfterTerminal ==
    [][\A w \in WebSockets :
         IsTerminalStatus(received[w]) => received'[w] \in {received[w], None}]_vars

\* C6: unless something raises, the job ends completed with progress 100
\* after exactly max_iterations iterations, and the loop never runs more.
C6_CompletesAtCap ==
    /\ <>(\/ Faulted
          \/ /\ research_jobs.status = "completed"
             /\ research_jobs.progress = Some(100)
             /\ iteration_count = max_iterations
             /\ Len(research_iterations) = max_iterations)
    /\ [](iteration_count <= max_iterations)
    /\ [](loopPc \in {"update_report", "status_completed"} =>
            Len(research_iterations) = max_iterations)

C6_Witness ==
    /\ ~Faulted
    /\ research_jobs.status = "completed"
    /\ Len(research_iterations) = max_iterations

\* C7: when the loop has ended, the iteration events emitted are those of
\* the persisted iterations, one each, in the same order.
C7_IterationEvents ==
    LoopEnded =>
        LET events == SelectSeq(emitted, LAMBDA e : e.type = "iteration")
        IN  /\ Len(events) = Len(research_iterations)
            /\ \A i \in 1..Len(events) :
                  events[i].step = research_iterations[i].step

C7_Witness ==
    /\ loopPc = "finished"
    /\ research_jobs.status = "failed"
    /\ Len(research_iterations) = 2
    /\ Cardinality(EventsOfType("iteration")) = 2

\* C8: the handler, when its persistence call returns, stores failed and
\* leaves the progress as it was, then emits one error event followed by one
\* status(failed, None) event.
C8_FailedTransition ==
    [][(loopPc = "handler" /\ loopPc' = "finished") =>
         /\ research_jobs'.status = "failed"
         /\ research_jobs'.progress = research_jobs.progress
         /\ emitted' = emitted \o <<ErrorEvent(job_id, loopError[1]),
                                     StatusEvent(job_id, "failed", None)>>
         /\ EventsOfType("error") = {}
         /\ StatusEvents("failed") = {}]_vars

C8_Witness ==
    /\ loopPc = "finished"
    /\ research_jobs.status = "failed"
    /\ research_jobs.progress = Some(50)
    /\ Len(emitted) >= 2
    /\ emitted[Len(emitted) - 1].type = "error"
    /\ emitted[Len(emitted)] = StatusEvent(job_id, "failed", None)

\* C9: the step that marks the job failed leaves the persisted iterations
\* and sources as they were.
C9_FailureKeepsRecords ==
    [][(research_jobs.status # "failed" /\ research_jobs'.status = "failed") =>
         /\ research_iterations' = research_iterations
         /\ research_sources' = research_sources]_vars

C9_Witness ==
    /\ research_jobs.status = "failed"
    /\ Len(research_iterations) >= 3
    /\ Len(research_sources) >= 1


\* The step in which broadcast task i, suspended in a send, returns.
SendReturns(i) ==
    /\ i \in InFlight
    /\ tasks' = RemoveAt(tasks, i)

\* The step in which broadcast task i runs from its start to its return.
RunReturns(i) ==
    /\ NextToStart(i)
    /\ tasks[i].message.job_id \in DOMAIN active_connections
    /\ tasks' = RemoveAt(tasks, i)

\* C10: when a publish returns, every subscriber of its snapshot has been
\* sent the event or has failed its send, the failing ones are no longer in
\* the job's set, and the publish has not raised.
C10_PublishSurvivesFailures ==
    [][\A i \in 1..Len(tasks) :
         /\ SendReturns(i) =>
               LET task == tasks[i]
                   last == task.sending[1]
                   failed == task.disconnected \cup
                               (IF wsState'[last].pc # "open" THEN {last} ELSE {})
               IN  /\ task.connections = task.sent \cup task.disconnected \cup {last}
                   /\ last \notin failed => received'[last] = Some(task.message)
                   /\ failed \cap connections_of(active_connections',
                                                 task.message.job_id) = {}
                   /\ ~broadcast_raised'
         /\ RunReturns(i) =>
               /\ \A c \in active_connections[tasks[i].message.job_id] :
                     \/ received'[c] = Some(tasks[i].message)
                     \/ /\ wsState'[c].pc # "open"
                        /\ c \notin connections_of(active_connections',
                                                   tasks[i].message.job_id)
               /\ ~broadcast_raised']_vars

\* One publish has failed at one subscriber and reached the other.
C10_Witness ==
    \E a, b \in WebSockets :
        /\ Len(emitted) = 1
        /\ tasks = <<>>
        /\ wsState[a].pc = "lost"
        /\ wsState[b].pc = "open"
        /\ wsState[a].job_id = wsState[b].job_id
        /\ received[b] = Some(emitted[1])
        /\ active_connections = [j \in {emitted[1].job_id} |-> {b}]
        /\ ~broadcast_raised

\* C11: the subscriber map holds no job id mapped to an empty set.  Every
\* state of the model is a suspension point of the event loop, so this holds
\* whenever no operation is running, and also while a publish is suspended in
\* a send and a disconnect has emptied the set of its job.
C11_NoEmptySets ==
    \A j \in DOMAIN active_connections : active_connections[j] # {}

\* A publish is suspended in its send to a subscriber whose endpoint has
\* ended meanwhile, which emptied and removed the set of the job.
C11_Witness ==
    \E i \in InFlight :
        /\ wsState[tasks[i].sending[1]].pc = "closed"
        /\ tasks[i].message.job_id \notin DOMAIN active_connections

Subscribers(j, pcs) ==
    {w \in WebSockets : wsState[w].pc \in pcs /\ wsState[w].job_id = Some(j)}

\* C12: under every interleaving of connect, disconnect and publish, publish
\* never raises; every live subscriber is in the set of its job, every member
\* of a set connected to that job and has not disconnected, and once every
\* publish has finished the set of each job is exactly its subscribers that
\* have neither disconnected nor failed a delivery.
C12_SetsMatchSubscribers ==
    /\ ~broadcast_raised
    /\ \A j \in JobIds :
          /\ Subscribers(j, {"open"}) \subseteq connections_of(active_connections, j)
          /\ connections_of(active_connections, j) \subseteq
                Subscribers(j, {"open", "lost"})
          /\ tasks = <<>> =>
                connections_of(active_connections, j) = Subscribers(j, {"open"})

\* Every publish has finished; of two subscribers of one job, one failed a
\* delivery and was dropped while the other is kept, and a message was
\* published to the other job too.
C12_Witness ==
    /\ tasks = <<>>
    /\ \E w, v \in WebSockets :
          /\ wsState[w].pc = "open" /\ wsState[w].job_id = Some("j1")
          /\ wsState[v].pc = "lost" /\ wsState[v].job_id = Some("j1")
          /\ active_connections = [j \in {"j1"} |-> {w}]
          /\ received[w] # None
    /\ \E k \in 1..Len(emitted) : emitted[k].job_id = "j2"

\* C13: whatever the subscribers do (a send raises, a send never completes),
\* the loop task ends; the job is marked failed only after a persistence
\* call raised in the loop; and a loop in which nothing raised has performed
\* its max_iterations iterations and completed the job.
C13_LoopIndependentOfSubscribers ==
    /\ <>(startPc = "raised" \/ LoopEnded)
    /\ [](research_jobs.status = "failed" =>
            loopError \in {Some("update_job_status"), Some("add_iteration"),
                           Some("add_source"), Some("update_job_report")})
    /\ [](loopPc = "finished" /\ loopError = None =>
            /\ research_jobs.status = "completed"
            /\ iteration_count = max_iterations
            /\ Len(research_iterations) = max_iterations)

\* The job is completed while a broadcast is still suspended in its send to
\* a subscriber that has failed the delivery of a later broadcast.
C13_Witness ==
    /\ research_jobs.status = "completed"
    /\ loopPc = "finished"
    /\ \E i \in InFlight : wsState[tasks[i].sending[1]].pc = "lost"

\* C14: when a persistence call may never return, the loop still does not
\* wait for ever: the loop task ends (and with it the job is given its
\* terminal status).
C14_LoopNeverHangs == <>(startPc = "raised" \/ LoopEnded)

InRange(progress) == progress # None /\ progress[1] \in 0..100

\* C15 as stated: the persisted progress is unset while the status is
\* pending, within 0..100 while it is running and exactly 100 when it is
\* completed.
C15_ProgressUnsetWhilePending ==
    /\ research_jobs.status = "pending" => research_jobs.progress = None
    /\ research_jobs.status = "running" => InRange(research_jobs.progress)
    /\ research_jobs.status = "completed" => research_jobs.progress = Some(100)

\* C15, amended: the persisted progress is 0 while the status is pending,
\* within 0..100 while it is running and exactly 100 when it is completed.
C15_ProgressByStatus ==
    /\ research_jobs.status = "pending" => research_jobs.progress = Some(0)
    /\ research_jobs.status = "running" => InRange(research_jobs.progress)
    /\ research_jobs.status = "completed" => research_jobs.progress = Some(100)

\* start_research was called and raised: the job stays pending with the
\* progress create_job stored.
C15_Witness ==
    /\ startPc = "raised"
    /\ research_jobs.status = "pending"
    /\ research_jobs.progress = Some(0)

\* The progress values of the status(running) events, in emission order.
RunningProgress(i) == emitted[i].progress[1]

\* C16: while the job is running the persisted progress never decreases and
\* stays within 0..100, the progress values of the status(running) events
\* never decrease and stay within 0..100, and after each iteration both equal
\* min(100, iteration_count * 100 / max_iterations).
C16_ProgressMonotone ==
    /\ [][research_jobs.status = "running" /\ research_jobs'.status = "running" =>
            /\ InRange(research_jobs.progress) /\ InRange(research_jobs'.progress)
            /\ research_jobs'.progress[1] >= research_jobs.progress[1]]_vars
    /\ [](\A i, k \in StatusEvents("running") :
            /\ InRange(emitted[i].progress)
            /\ i <= k => RunningProgress(i) <= RunningProgress(k))
    /\ [](loopPc \in {"add_source", "sleep"} =>
            LET expected == IF iteration_count * 100 <= 100 * max_iterations
                            THEN (iteration_count * 100) \div max_iterations
                            ELSE 100
            IN  /\ research_jobs.progress = Some(expected)
                /\ \E i \in StatusEvents("running") :
                      /\ \A k \in StatusEvents("running") : k <= i
                      /\ emitted[i] = StatusEvent(job_id, "running", Some(expected)))

\* Half of the iterations are done: progress 50 is stored and was emitted
\* after progress 45.
C16_Witness ==
    /\ loopPc = "sleep"
    /\ iteration_count * 2 = max_iterations
    /\ research_jobs.progress = Some(50)
    /\ \E i, k \in StatusEvents("running") :
          i < k /\ RunningProgress(i) = 45 /\ RunningProgress(k) = 50

\* C17: a report is persisted, and a report event emitted, only for a job
\* whose status is or becomes completed: once the loop has ended without
\* completing the job, no report is stored and none was emitted.
C17_ReportOnlyWhenCompleted ==
    LoopEnded /\ research_jobs.status # "completed" =>
        /\ research_jobs.report = None
        /\ EventsOfType("report") = {}

\* A failure that may pass: a 5xx response, a network-level error, a timeout.
Transient(outcome) ==
    \/ outcome.kind \in {"RequestError", "TimeoutException"}
    \/ outcome.kind = "response" /\ outcome.status_code \in 500..599

Successful(outcome) ==
    outcome.kind = "response" /\ is_success(outcome) /\ outcome.body = "completion"

\* The exception that reports an outcome to the caller.
ExceptionOf(outcome) ==
    IF outcome.kind = "response"
    THEN [type |-> "HTTPStatusError", status_code |-> outcome.status_code]
    ELSE [type |-> outcome.kind, status_code |-> 0]

Attempts == Len(client.requests)

DelayAfter(i) ==
    IF i <= Len(client.slept) THEN Some(client.slept[i])
    ELSE IF i = Len(client.slept) + 1 THEN client.sleeping ELSE None

\* C19: after a 429 on attempt 1 or 2, whatever its Retry-After header, the
\* call waits and goes on to another attempt, waiting the header's seconds
\* when there is a header and the backoff delay of the attempt otherwise; a
\* 429 on attempt 3 is raised to the caller as an HTTP status error.
C19_RateLimitRetried ==
    \A i \in 1..Attempts :
        client.requests[i].status_code = 429 =>
            IF i < max_attempts
            THEN /\ i < Attempts \/ client.pc \in {"sleeping", "request"}
                 /\ LET header == client.requests[i].retry_after
                     IN  /\ header = None => DelayAfter(i) = Some(backoff(i - 1))
                         /\ header # None /\ float(header[1]) # None =>
                                DelayAfter(i) = float(header[1])
            ELSE /\ client.pc = "raised"
                 /\ client.result = None
                 /\ client.error = Some([type |-> "HTTPStatusError", status_code |-> 429])

IsRateLimited(outcome) == outcome.kind = "response" /\ outcome.status_code = 429

\* C20: after k responses with status 429 (0 <= k <= 2) and then a valid
\* 200 response, the call has returned that one result, made exactly k + 1
\* requests and slept exactly k times; and while only 429 responses have
\* come (at most 2) the call goes on.
C20_RateLimitedThenSuccess ==
    \A k \in 0..(max_attempts - 1) :
        /\ (Attempts = k /\ \A i \in 1..k : IsRateLimited(client.requests[i])) =>
              client.pc \in {"idle", "sleeping", "request"}
        /\ (/\ Attempts = k + 1
            /\ \A i \in 1..k : IsRateLimited(client.requests[i])
            /\ Successful(client.requests[k + 1])) =>
              /\ client.pc = "returned"
              /\ client.result = Some(client.requests[k + 1])
              /\ Len(client.slept) = k

\* A failure that must not be retried: a 4xx response other than 429, or a
\* 2xx response whose body fails the parsing or the validation.
Fatal(outcome) ==
    /\ outcome.kind = "response"
    /\ \/ outcome.status_code \in 400..499 /\ outcome.status_code # 429
       \/ is_success(outcome) /\ outcome.body # "completion"

\* C21: a 4xx response other than 429, and every parsing or validation
\* failure of a 2xx response, ends the call on that attempt: no further
\* request follows it, no delay is slept after it, and the error raised is a
\* ValueError or an HTTP status error with the 4xx code, neither of which a
\* retried transient failure raises.
C21_FatalNotRetried ==
    \A i \in 1..Attempts :
        Fatal(client.requests[i]) =>
            /\ i = Attempts
            /\ client.pc = "raised"
            /\ Len(client.slept) = i - 1
            /\ client.error \in
                  {Some([type |-> "ValueError", status_code |-> 0]),
                   Some([type |-> "HTTPStatusError",
                         status_code |-> client.requests[i].status_code])}

\* The positions of the rows of a (job id, URL) pair.
RowsOf(rows, job, url) ==
    {i \in 1..Len(rows) : rows[i].job_id = job /\ rows[i].url = url}

\* The rows of every other pair.
OtherRows(rows, job, url) ==
    {rows[i] : i \in (1..Len(rows)) \ RowsOf(rows, job, url)}

\* C22: after any interleaving of add_source calls the store holds at most
\* one row per (job id, URL) pair; no call is refused because its pair is
\* already stored; and the step in which a call's write lands leaves exactly
\* one row of its pair, carrying the values of that call, and the rows of the
\* other pairs as they were.
C22_OneSourcePerUrl ==
    /\ [](\A job \in JobIds, url \in Urls :
            Cardinality(RowsOf(research_sources, job, url)) <= 1)
    /\ [](\A c \in SourceCallIds :
            sourceCalls[c].pc = "raised" => sourceCalls[c].error = Some(ConnectionError))
    /\ [][\A c \in SourceCallIds :
            sourceCalls[c].pc # "returned" /\ sourceCalls'[c].pc = "returned" =>
                LET written == sourceCalls[c].source_data[1]
                IN  /\ \E i \in 1..Len(research_sources') :
                          /\ RowsOf(research_sources', written.job_id, written.url) = {i}
                          /\ research_sources'[i] = written
                    /\ OtherRows(research_sources', written.job_id, written.url) =
                          OtherRows(research_sources, written.job_id, written.url)]_vars

\* Two calls wrote the same (job id, URL) pair with different titles and a
\* third call wrote another URL of the job: two rows are stored.
C22_Witness ==
    /\ \A c \in 1..3 : sourceCalls[c].pc = "returned"
    /\ sourceCalls[1].source_data[1].job_id = sourceCalls[2].source_data[1].job_id
    /\ sourceCalls[1].source_data[1].url = sourceCalls[2].source_data[1].url
    /\ sourceCalls[1].source_data[1].title # sourceCalls[2].source_data[1].title
    /\ sourceCalls[3].source_data[1].job_id = sourceCalls[1].source_data[1].job_id
    /\ sourceCalls[3].source_data[1].url # sourceCalls[1].source_data[1].url
    /\ Len(research_sources) = 2

\* The tasks that may deliver `message` to `websocket` in the next step: a
\* broadcast suspended in its send to it, or one about to take its copy of a
\* set the WebSocket is in.
Delivering(websocket, message) ==
    {i \in 1..Len(tasks) :
        /\ tasks[i].message = message
        /\ IF tasks[i].started
           THEN tasks[i].sending = Some(websocket)
           ELSE websocket \in connections_of(active_connections, message.job_id)}

\* C23: a subscriber is delivered an event only by a publish that has not
\* completed and that took (or takes) its copy of the set with the subscriber
\* in it: an event whose publish completed before the subscriber was added
\* is never delivered to it.
C23_NoReplayToLateSubscriber ==
    [][\A w \in WebSockets :
         received'[w] \notin {received[w], None} =>
            /\ wsState[w].pc = "open"
            /\ Delivering(w, received'[w][1]) # {}]_vars

\* Two subscribers of one job, no publish under way: one was delivered an
\* event, the other joined after that publish took its copy and was
\* delivered nothing.
C23_Witness ==
    /\ tasks = <<>>
    /\ wsState["w1"].pc = "open" /\ wsState["w1"].job_id = Some("j1")
    /\ wsState["w2"].pc = "open" /\ wsState["w2"].job_id = Some("j1")
    /\ received["w1"] # None
    /\ received["w2"] = None

\* The jobs whose subscriber set a WebSocket is in.
JobsOf(websocket) ==
    {j \in DOMAIN active_connections : websocket \in active_connections[j]}

\* C24: each WebSocket is in the subscriber set of at most one job.
C24_OneJobPerSubscriber ==
    \A w \in WebSockets : Cardinality(JobsOf(w)) <= 1

\* Both jobs have a subscriber.
C24_Witness ==
    /\ JobsOf("w1") = {"j1"}
    /\ JobsOf("w2") = {"j2"}

\* C25: every event delivered to a subscriber carries a job id, the job id
\* the subscriber connected to.
C25_JobIsolation ==
    \A w \in WebSockets :
        received[w] # None =>
            /\ "job_id" \in DOMAIN received[w][1]
            /\ Some(received[w][1].job_id) = wsState[w].job_id

\* Subscribers of two jobs have each been delivered an event of their job.
C25_Witness ==
    /\ wsState["w1"].job_id = Some("j1") /\ received["w1"] # None
    /\ wsState["w2"].job_id = Some("j2") /\ received["w2"] # None
    /\ received["w1"][1].job_id = "j1"
    /\ received["w2"][1].job_id = "j2"

\* C26: execute_tool with a name that is neither web_search nor web_fetch
\* calls neither tool, returns no result and raises the unknown-tool error,
\* a ValueError that names the tool.
C26_UnknownToolRaises ==
    tool.pc # "idle" /\ tool.tool_name \notin {"web_search", "web_fetch"} =>
        /\ tool.pc = "raised"
        /\ tool.error = Some([type |-> "ValueError", tool_name |-> tool.tool_name])
        /\ tool.called = <<>>
        /\ tool.result = None

\* execute_tool("web_scrape", ...) has raised.
C26_Witness ==
    /\ tool.tool_name = "web_scrape"
    /\ tool.pc = "raised"
    /\ tool.called = <<>>

\* An HTTP error status, a network failure or a timeout of the provider.
IsProviderFailure(response) ==
    \/ response.kind \in {"RequestError", "TimeoutException"}
    \/ response.kind = "response" /\ response.status_code >= 400

\* C27: when the content provider answers with an HTTP error status, or the
\* request fails or times out, fetch raises nothing: execute_tool returns
\* {"tool": "web_fetch", "content": c} where c has the one key "error".
C27_FetchErrorsAreReturned ==
    (/\ tool.called = <<"web_fetch">>
     /\ tool.response # None
     /\ IsProviderFailure(tool.response[1])) =>
        /\ tool.pc = "returned"
        /\ tool.error = None
        /\ tool.result # None
        /\ tool.result[1].tool = "web_fetch"
        /\ DOMAIN tool.result[1].content = {"error"}

\* The provider timed out and execute_tool has returned.
C27_Witness ==
    /\ tool.called = <<"web_fetch">>
    /\ tool.response # None
    /\ tool.response[1].kind = "TimeoutException"
    /\ tool.pc = "returned"

\* The positions of a text where a word starts.
WordStarts(text) ==
    {i \in 1..Len(text) : ~isspace(text[i]) /\ (i = 1 \/ isspace(text[i - 1]))}

\* The call fetched a page.
Fetched ==
    /\ tool.called = <<"web_fetch">>
    /\ tool.pc = "returned"
    /\ tool.response # None
    /\ tool.response[1].kind = "response"
    /\ tool.response[1].status_code = 200

\* C28: of a fetched text of n words, web_fetch returns the first
\* min(n, 10000) words, whole and in order, with word_count = min(n, 10000);
\* a text of at most 10000 words is returned unchanged.
C28_TruncatedToMaxWords ==
    Fetched =>
        LET text == tool.response[1].text
            n == Cardinality(WordStarts(text))
            content == tool.result[1].content
        IN  /\ DOMAIN content = {"url", "title", "content", "word_count"}
            /\ split(content.content) = SubSeq(split(text), 1, Min(n, max_words))
            /\ content.word_count = Min(n, max_words)
            /\ n <= max_words => content.content = text

\* A page of 12000 words was fetched and 10000 words were returned.
C28_Witness ==
    /\ Fetched
    /\ tool.response[1].text = Text(max_words + 2000, "mixed")
    /\ tool.result[1].content.word_count = max_words

\* The results with a title and a url, in order.
Qualifying(results) ==
    SelectSeq(results, LAMBDA r : r.title # <<>> /\ r.url # <<>>)

\* C29: web_search returns at most 10 results, each with a title and a url
\* that are not empty, and they are the qualifying results of a prefix of
\* the provider's results in the provider's order.
C29_SearchResultsCapped ==
    tool.called = <<"web_search">> /\ tool.pc = "returned" =>
        LET results == tool.result[1].results
            raw == IF tool.response = None THEN <<>> ELSE tool.response[1].raw_results
            formatted == [i \in 1..Len(raw) |->
                            [title |-> raw[i].title, url |-> raw[i].url,
                             snippet |-> raw[i].description]]
        IN  /\ Len(results) <= max_count
            /\ \A i \in 1..Len(results) :
                  results[i].title # <<>> /\ results[i].url # <<>>
            /\ \E k \in 0..Len(raw) : results = Qualifying(SubSeq(formatted, 1, k))

\* C30: a ping received from a connected subscriber is answered with the
\* pong message of its job and text that is not JSON with the error message
\* "Invalid JSON format"; the answer is sent once, to that subscriber only,
\* and receiving and answering leave the connection open and the subscriber
\* in its job's set.
C30_PingAndInvalidJSONAnswered ==
    /\ [](\A w \in WebSockets :
            endpoint[w].pc = "replying" =>
                LET job == wsState[w].job_id[1]
                IN  /\ msg_type(endpoint[w].data[1]) = "ping" =>
                          endpoint[w].reply = Some(PongMessage(job))
                    /\ is_invalid_json(endpoint[w].data[1]) =>
                          endpoint[w].reply = Some(InvalidJSONMessage(job))
                    /\ wsState[w].pc = "open" =>
                          w \in connections_of(active_connections, job))
    /\ [][\A w \in WebSockets :
            /\ (endpoint[w].pc = "receiving" /\ endpoint'[w].pc = "replying") =>
                  /\ wsState[w].pc = "open"
                  /\ UNCHANGED <<wsState, active_connections, received>>
            /\ (endpoint[w].pc = "replying" /\ endpoint'[w].pc # "replying") =>
                  /\ endpoint'[w].pc = "receiving"
                  /\ active_connections' = active_connections
                  /\ \A other \in WebSockets \ {w} :
                        /\ received'[other] = received[other]
                        /\ wsState'[other] = wsState[other]
                  /\ wsState'[w].pc = "open" =>
                        /\ received'[w] = endpoint[w].reply
                        /\ wsState'[w] = wsState[w]]_vars
    /\ \A w \in WebSockets :
          endpoint[w].pc = "replying" ~>
              \/ /\ endpoint[w].pc = "receiving"
                 /\ received[w] # None
                 /\ received[w][1].type \in {"pong", "error"}
              \/ wsState[w].pc # "open"

\* Two subscribers of one job: the first sent a ping and was sent the pong,
\* the second was sent nothing after the confirmation of its connection.
C30_Witness ==
    /\ wsState["w1"].pc = "open" /\ wsState["w1"].job_id = Some("j1")
    /\ wsState["w2"].pc = "open" /\ wsState["w2"].job_id = Some("j1")
    /\ endpoint["w1"].pc = "receiving"
    /\ received["w1"] # None /\ received["w1"][1].type = "pong"
    /\ received["w2"] # None /\ received["w2"][1].type = "connected"
    /\ active_connections["j1"] = {"w1", "w2"}

\* C31: start_research returns in the step in which status running with
\* progress 0 is stored: at that moment no iteration has been executed and
\* the loop is a task that has been created and has not run; the loop runs
\* only after the return, and the return is not undone or delayed by it.
C31_StartReturnsBeforeLoop ==
    /\ [][(startPc # "returned" /\ startPc' = "returned") =>
            /\ research_jobs'.status = "running"
            /\ research_jobs'.progress = Some(0)
            /\ research_iterations' = <<>>
            /\ iteration_count' = 0
            /\ loopPc' = "created"]_vars
    /\ [][(loopPc # "none" /\ loopPc' # loopPc) =>
            startPc = "returned" /\ startPc' = "returned"]_vars
    /\ [](loopPc # "none" => startPc = "returned")

\* start_research has returned and the loop task has not run yet.
C31_Witness ==
    /\ startPc = "returned"
    /\ loopPc = "created"
    /\ research_jobs.status = "running"
    /\ research_iterations = <<>>

\* C32: at an iteration boundary with a cancellation pending, the step the
\* loop takes starts no further iteration and stores the status cancelled.
C32_CancellationHonored ==
    [][(cancel_requested /\ loopPc = "sleep" /\ loopPc' # "sleep") =>
          /\ iteration_count' = iteration_count
          /\ research_jobs'.status = "cancelled"]_vars

\* C33: what a subscriber is delivered comes in the order the loop emitted
\* it: an event delivered right after another was emitted after it. (With
\* this for every two deliveries in a row, iteration events come in
\* increasing step order, the report before status(completed) and the error
\* before status(failed).)
C33_DeliveredInEmittedOrder ==
    [][\A w \in WebSockets :
         (received[w] # None /\ received'[w] # None /\ received'[w] # received[w]) =>
            \E i, j \in 1..Len(emitted') :
                /\ i < j
                /\ emitted'[i] = received[w][1]
                /\ emitted'[j] = received'[w][1]]_vars

\* What the persisted state says of the fact an event reports.
Persisted(event, job, iterations, sources) ==
    CASE event.type = "iteration" ->
            \E i \in 1..Len(iterations) :
                iterations[i].job_id = event.job_id /\ iterations[i].step = event.step
      [] event.type = "source" ->
            \E i \in 1..Len(sources) :
                sources[i].job_id = event.job_id /\ sources[i].url = event.url
      [] event.type = "report" -> job.report = Some(event.report)
      [] event.type = "status" ->
            /\ job.status = event.status
            /\ event.progress # None => job.progress = event.progress
      [] OTHER -> TRUE

\* C34: persist-before-emit. A step that emits events has stored what they
\* report (for a step that emits two, the last status event is the stored
\* one); a step in which a persistence call raises emits nothing; so the
\* iteration, source and report events emitted are always of stored facts.
C34_PersistBeforeEmit ==
    /\ [][\A i \in (Len(emitted) + 1)..Len(emitted') :
            Persisted(emitted'[i], research_jobs', research_iterations',
                      research_sources')]_vars
    /\ [][(loopError' # loopError \/ loopPc' = "crashed" \/ startPc' = "raised") =>
            emitted' = emitted]_vars
    /\ [](\A i \in 1..Len(emitted) :
            emitted[i].type \in {"iteration", "source", "report"} =>
                Persisted(emitted[i], research_jobs, research_iterations,
                          research_sources))

C34_Witness ==
    /\ loopError = Some("update_job_status")
    /\ loopPc = "finished"
    /\ Len(research_iterations) = 4
    /\ Cardinality(EventsOfType("iteration")) = 4
    /\ Cardinality(EventsOfType("source")) = 1
    /\ Cardinality(StatusEvents("running")) = 5

\* C35: one job start emits status(running, 0) once: at most one of the
\* events emitted is a running status with progress 0.
C35_OneRunningEvent ==
    Cardinality({i \in StatusEvents("running") : emitted[i].progress = Some(0)}) <= 1

\* C36: when the first persistence call of start_research raises,
\* start_research raises: no loop task and no broadcast is created, no event
\* is emitted, the stored status is pending, and no later step of the
\* orchestrator changes the stored job.
C36_StartFailureLeavesPending ==
    /\ [](startPc = "raised" =>
            /\ research_jobs.status = "pending"
            /\ loopPc = "none"
            /\ emitted = <<>>
            /\ tasks = <<>>
            /\ research_iterations = <<>>)
    /\ [][startPc = "raised" =>
            /\ startPc' = "raised"
            /\ UNCHANGED <<research_jobs, research_iterations, research_sources,
                           loopPc, emitted>>]_vars

C36_Witness ==
    /\ startPc = "raised"
    /\ research_jobs.status = "pending"
    /\ loopPc = "none"

\* C37: a WebSocket whose endpoint handler has ended (accept raised, or the
\* message loop was left and the cleanup ran) is in no job's set; a
\* broadcast that has not started would copy a set without it, and one that
\* starts does not have it among the connections it sends to; nothing is
\* delivered to it.
C37_EndedHandlerIsUnsubscribed ==
    /\ [](\A w \in WebSockets :
            wsState[w].pc = "closed" =>
                /\ \A j \in DOMAIN active_connections : w \notin active_connections[j]
                /\ received[w] = None
                /\ \A i \in 1..Len(tasks) :
                      (/\ ~tasks[i].started
                       /\ tasks[i].message.job_id \in DOMAIN active_connections) =>
                          w \notin snapshot(tasks[i]).connections)
    /\ [](\A w \in WebSockets :
            endpoint[w].pc = "returned" => wsState[w].pc = "closed")
    /\ [][\A w \in WebSockets, i \in 1..Len(tasks) :
            (/\ wsState[w].pc = "closed"
             /\ ~tasks[i].started
             /\ Len(tasks') = Len(tasks)
             /\ tasks'[i].started) =>
                /\ w \notin tasks'[i].connections
                /\ tasks'[i].sending # Some(w)]_vars

\* The first subscriber of the job has gone and its handler has returned; a
\* broadcast that started since is sending to the second subscriber only.
C37_Witness ==
    /\ endpoint["w1"].pc = "returned"
    /\ wsState["w1"].job_id = Some("j1")
    /\ wsState["w2"].pc = "open" /\ wsState["w2"].job_id = Some("j1")
    /\ active_connections["j1"] = {"w2"}
    /\ Len(tasks) > 0
    /\ tasks[1].started
    /\ tasks[1].connections = {"w2"}

\* C38: disconnect is idempotent and total. For every WebSocket and job id,
\* whatever the map: disconnecting twice gives what disconnecting once
\* gives; when the job has no entry or the WebSocket is not in its set the
\* map is returned as it is; the entries of the other jobs are kept as they
\* are and none is added. The cleanup of an endpoint whose WebSocket a
\* broadcast has removed already leaves the map as it is.
C38_DisconnectIdempotent ==
    /\ [](\A w \in WebSockets, j \in JobIds :
            LET once == disconnect(active_connections, w, j)
            IN  /\ disconnect(once, w, j) = once
                /\ w \notin connections_of(once, j)
                /\ w \notin connections_of(active_connections, j) =>
                      once = active_connections
                /\ DOMAIN once \subseteq DOMAIN active_connections
                /\ \A k \in DOMAIN active_connections \ {j} :
                      k \in DOMAIN once /\ once[k] = active_connections[k])
    /\ [][\A w \in WebSockets :
            (/\ endpoint[w].pc = "receiving"
             /\ endpoint'[w].pc = "returned") =>
                LET j == wsState[w].job_id[1]
                IN  /\ active_connections' = disconnect(active_connections, w, j)
                    /\ w \notin connections_of(active_connections, j) =>
                          active_connections' = active_connections
                    /\ \A k \in DOMAIN active_connections \ {j} :
                          /\ k \in DOMAIN active_connections'
                          /\ active_connections'[k] = active_connections[k]]_vars

\* The subscriber of j1 has been disconnected and the entry of j1 is gone;
\* the subscriber of j2 is in its set as before.
C38_Witness ==
    /\ endpoint["w1"].pc = "returned"
    /\ wsState["w1"].job_id = Some("j1")
    /\ wsState["w2"].pc = "open" /\ wsState["w2"].job_id = Some("j2")
    /\ DOMAIN active_connections = {"j2"}
    /\ active_connections["j2"] = {"w2"}
    /\ disconnect(active_connections, "w1", "j1") = active_connections

\* C39: the delay slept (or being slept) after a 5xx response, a network
\* error or a timeout on attempt i is delays[i]: 1 after attempt 1 and 2
\* after attempt 2; nothing is slept after attempt 3, so a call sleeps at
\* most twice, and a call that has ended slept once less than it made
\* requests.
C39_BackoffDelays ==
    /\ \A i \in 1..Attempts :
          (Transient(client.requests[i]) /\ i < max_attempts) =>
              /\ DelayAfter(i) = Some(delays[i])
              /\ DelayAfter(i) = Some(IF i = 1 THEN 1 ELSE 2)
    /\ DelayAfter(max_attempts) = None
    /\ Len(client.slept) <= max_attempts - 1
    /\ client.sleeping # None => Len(client.slept) < max_attempts - 1
    /\ client.pc \in {"returned", "raised"} =>
          /\ client.sleeping = None
          /\ Len(client.slept) = Attempts - 1

\* Three transient failures: a 500, a network error and a timeout; the call
\* slept 1 and 2 and raised after the third.
C39_Witness ==
    /\ client.pc = "raised"
    /\ Attempts = max_attempts
    /\ client.requests[1].status_code = 500
    /\ client.requests[2].kind = "RequestError"
    /\ client.requests[3].kind = "TimeoutException"
    /\ client.slept = <<1, 2>>

====
